---------------------------- MODULE Spec2Model ----------------------------
(***************************************************************************)
(* Session engine of mexc-sdk-go: the Promise (internal/wsutil), the       *)
(* handler Router, and the three WebSocket sessions                        *)
(*   spot/wsmarket    ("spot":      pending promises in a map keyed by id), *)
(*   futures/wsmarket ("futmarket": one pending-promise slot),              *)
(*   futures/wsuser   ("futuser":   one slot, Subscribe sends no request).  *)
(*                                                                         *)
(* SpecPromise drives one Promise with arbitrary Resolve / Reject / Await  *)
(* calls.  Spec drives one Session of a family chosen in Init: two         *)
(* application tasks subscribe and unsubscribe while the read loop handles *)
(* the server's replies.  SpecUser is the user session alone, with a       *)
(* second spec object for one key.  SpecClose drives Close from the        *)
(* application, the read loop and the pinger.  SpecLive adds the fairness  *)
(* of the goroutine scheduler for the liveness of the calls, SpecRead does *)
(* the same for the read loop under pushes and a socket failure, and       *)
(* SpecRoute drives the Router with pushed frames while the application    *)
(* subscribes and unsubscribes.  SpecShut follows the workers after Close, *)
(* SpecQueue builds the transport with several queue capacities, and       *)
(* SpecCallback lets a data callback call Subscribe or Unsubscribe.        *)
(***************************************************************************)
EXTENDS Integers, Sequences, FiniteSets, TLC

VARIABLES
    \* ---- Promise under test (SpecPromise) ----
    tp,             \* the promiseImp: [resCh, errCh, once]
    tpLog,          \* history: the Resolve / Reject calls made so far, in order
    tpAwait,        \* per waiter: the Await call and what it returned
    \* ---- Session (Spec) ----
    family,         \* which session type this is
    preSubs,        \* subscriptions already active when the run starts
    opsLimit,       \* how many calls the application makes in this run
    outChCap,       \* capacity of the transport's outCh, fixed at construction
    activeSubs,     \* w.activeSubs: key -> handle (0 = no entry)
    activeSubsMu,   \* w.activeSubsMu: the task holding it, or "free"
    router,         \* handlerRouterImp.handlers: the registered spec objects
    handles,        \* the subscriptionWrapper objects created so far
    promisesMap,    \* spot: w.promisesMap, id -> owning task ("none" = absent)
    promiseSlot,    \* futures: w.promise, the owning task or "none"
    prom,           \* the promise each requester created for its request
    counter,        \* spot: w.counter
    wire,           \* requests written to the socket, not yet answered
    inbox,          \* the transport's outCh: frames read, not yet handled
    connState,      \* "created" | "connected" | "failed" (Connect returned an error)
    connCtxDone,    \* the context given to Connect is done
    sockReader,     \* the transport's startReader: "off" | "on" | "stopped"
    clientClosed,   \* how many times the session called client.Close()
    closeOnce,      \* w.closeOnce: "idle" | "running" | "done"
    closeErr,       \* w.closeErr
    pc,             \* each task's position
    call,           \* each task's current call (arguments and locals)
    ret,            \* each task's last returned result
    hist            \* history counters used by the properties

promiseVars == <<tp, tpLog, tpAwait>>
sessionVars == <<family, preSubs, opsLimit, outChCap, activeSubs, activeSubsMu, router, handles,
                 promisesMap, promiseSlot, prom, counter, wire, inbox,
                 connState, connCtxDone, sockReader, clientClosed, closeOnce, closeErr, pc, call, ret, hist>>
vars == <<tp, tpLog, tpAwait, family, preSubs, opsLimit, outChCap, activeSubs, activeSubsMu, router,
          handles, promisesMap, promiseSlot, prom, counter, wire, inbox,
          connState, connCtxDone, sockReader, clientClosed, closeOnce, closeErr, pc, call, ret, hist>>

-----------------------------------------------------------------------------
(* Promise: internal/wsutil                                                *)

FromUnknown == 0
FromServer == 1
FromContext == 2

Msgs == {"m1", "m2"}
Errs == {"e1", "e2"}

\* NewPromise: two channels of capacity 1 and an unfired sync.Once.
NewPromise == [resCh |-> <<>>, errCh |-> <<>>, once |-> FALSE]

\* A plausible bug: sending without the once guard (a send on a full channel
\* of capacity 1 would block, so nothing is added then).
ResolveNoOnce(p, msg) ==
    IF Len(p.resCh) < 1 THEN [p EXCEPT !.resCh = Append(@, msg)] ELSE p

\* Resolve: p.once.Do(func() { p.resCh <- msg })
Resolve(p, msg) ==
    IF p.once THEN p ELSE [p EXCEPT !.once = TRUE, !.resCh = Append(@, msg)]

\* Reject: p.once.Do(func() { p.errCh <- err })
Reject(p, err) ==
    IF p.once THEN p ELSE [p EXCEPT !.once = TRUE, !.errCh = Append(@, err)]

\* What Await returns: (msg, nil) or (nil, &PromiseError{Source, Err}).
AwaitValue(msg) == [isErr |-> FALSE, src |-> FromUnknown, val |-> msg]
AwaitError(source, err) == [isErr |-> TRUE, src |-> source, val |-> err]

\* A plausible bug: the ctx.Done case returning (nil, nil).
AwaitCasesNilOnDone(p, ctxDone) ==
    {AwaitValue(Head(p.resCh)) : x \in IF p.resCh # <<>> THEN {1} ELSE {}}
        \cup {AwaitError(FromServer, Head(p.errCh)) : x \in IF p.errCh # <<>> THEN {1} ELSE {}}
        \cup {AwaitValue("nil") : x \in IF ctxDone THEN {1} ELSE {}}

\* Await's select: the cases that are ready; Go picks any one of them, and
\* the call blocks while the set is empty.
AwaitCases(p, ctxDone) ==
    {AwaitValue(Head(p.resCh)) : x \in IF p.resCh # <<>> THEN {1} ELSE {}}
        \cup {AwaitError(FromServer, Head(p.errCh)) : x \in IF p.errCh # <<>> THEN {1} ELSE {}}
        \cup {AwaitError(FromContext, "ctx") : x \in IF ctxDone THEN {1} ELSE {}}

\* The promise after Await took `out`: a receive empties that channel.
AwaitTake(p, out) ==
    IF ~out.isErr /\ p.resCh # <<>> /\ out.val = Head(p.resCh)
        THEN [p EXCEPT !.resCh = Tail(@)]
    ELSE IF out.isErr /\ out.src = FromServer
        THEN [p EXCEPT !.errCh = Tail(@)]
    ELSE p

-----------------------------------------------------------------------------
(* SpecPromise: one Promise, any Resolve / Reject calls, two waiters.      *)

MaxCalls == 3
Waiters == {"w1", "w2"}

NoAwait == [st |-> "none", ctxDone |-> FALSE, ctxAtCall |-> FALSE,
            pendingAtReturn |-> FALSE, callsAtReturn |-> 0,
            out |-> AwaitValue("nil")]

TPResolve(msg) ==
    /\ Len(tpLog) < MaxCalls
    /\ tp' = Resolve(tp, msg)
    /\ tpLog' = Append(tpLog, [op |-> "resolve", arg |-> msg])
    /\ UNCHANGED <<tpAwait, sessionVars>>

TPReject(err) ==
    /\ Len(tpLog) < MaxCalls
    /\ tp' = Reject(tp, err)
    /\ tpLog' = Append(tpLog, [op |-> "reject", arg |-> err])
    /\ UNCHANGED <<tpAwait, sessionVars>>

\* Await is entered with a context that is live or already done.
TPAwaitCall(w, done) ==
    /\ tpAwait[w].st = "none"
    /\ tpAwait' = [tpAwait EXCEPT ![w] = [NoAwait EXCEPT !.st = "waiting",
                        !.ctxDone = done, !.ctxAtCall = done]]
    /\ UNCHANGED <<tp, tpLog, sessionVars>>

\* The context's deadline passes (or it is cancelled) while Await blocks.
TPCtxDone(w) ==
    /\ tpAwait[w].st = "waiting"
    /\ ~tpAwait[w].ctxDone
    /\ tpAwait' = [tpAwait EXCEPT ![w].ctxDone = TRUE]
    /\ UNCHANGED <<tp, tpLog, sessionVars>>

TPAwaitReturn(w) ==
    /\ tpAwait[w].st = "waiting"
    /\ \E out \in AwaitCases(tp, tpAwait[w].ctxDone) :
        /\ tp' = AwaitTake(tp, out)
        /\ tpAwait' = [tpAwait EXCEPT ![w].st = "returned", ![w].out = out,
                            ![w].pendingAtReturn = (tp.resCh # <<>> \/ tp.errCh # <<>>),
                            ![w].callsAtReturn = Len(tpLog)]
    /\ UNCHANGED <<tpLog, sessionVars>>

-----------------------------------------------------------------------------
(* The sessions: constants, tasks, requests and frames                      *)

Families == {"spot", "futmarket", "futuser"}

maxCountSubscribesSpot == 30
maxCountSubscribesFutMarket == 30
maxCountSubscribesFutUser == 6
reservedPongID == 0

maxCountSubscribes ==
    IF family = "spot" THEN maxCountSubscribesSpot
    ELSE IF family = "futmarket" THEN maxCountSubscribesFutMarket
    ELSE maxCountSubscribesFutUser

\* Model bounds.
MaxOps == 3         \* Subscribe / Unsubscribe calls made by the application
MaxUserOps == 3     \* the same, in the runs of the user session alone
MaxCloses == 2      \* Close calls made by the application
MaxPings == 2       \* ticks of the pinger's ticker
MaxLiveOps == 2     \* Subscribe / Unsubscribe calls in the runs with fairness
MaxPushes == 2      \* push frames the server sends
MaxRouteOps == 3    \* Subscribe / Unsubscribe calls in the runs with push frames
InboxCap == 1       \* capacity given to WithBufferedOutCh in most runs
MaxQueue == 2       \* largest capacity given to WithBufferedOutCh
MaxCallbackOps == 2 \* calls made in the runs with calling callbacks

\* The spec objects the application owns, and their keys (sub.id()):
\* s1 and s2 are two objects for the same stream, s3 is another stream
\* (s2 is used in the runs of the user session alone).
Subs == {"s1", "s3"}
UserSubs == Subs \cup {"s2"}
Keys == {"k1", "k2"}
Payloads == {"valid", "malformed"}
SubID(s) == IF s = "s3" THEN "k2" ELSE "k1"

\* The user session's keys are the channels of its six subscription types;
\* a market session's keys are stream names, as many as there are symbols.
UserChannels == {"adl.level", "asset", "order", "position", "position.mode",
                 "risk.limit"}

\* The subscriptions active at the start, on keys other than Keys: one short
\* of the limit in a market session, every other channel in the user session.
InitialSubs ==
    IF family = "futuser" THEN Cardinality(UserChannels) - Cardinality(Keys)
    ELSE maxCountSubscribes - 1

AppTasks == {"a1", "a2"}
Pinger == "pg"
Reader == "rd"
\* The read loop's goroutine while it runs a call made by a data callback:
\* the frame of that call, on top of the read loop's own frame in Route.
Callback == "cb"
Callers == AppTasks \cup {Callback}
Requesters == Callers \cup {Pinger}
Tasks == Requesters \cup {Reader}

\* A request on the wire and a frame from the server.
Request(o, k, i) == [op |-> o, key |-> k, id |-> i]
Frame(kd, o, k, i) == [kind |-> kd, op |-> o, key |-> k, id |-> i]

\* A call's arguments and locals; frame and todo are the read loop's, while
\* it is inside router.Route: the frame and the handlers still to be run.
NoCall == [op |-> "none", sub |-> "none", h |-> 0, ctxDone |-> FALSE,
           reqId |-> 0, err |-> "nil", cause |-> "none", settled |-> "none",
           ackKey |-> "none", sent |-> FALSE, conc |-> FALSE, deadline |-> FALSE,
           frame |-> Frame("none", "none", "none", 0), todo |-> {}]

NoRet == [op |-> "none", key |-> "none", err |-> "nil", h |-> 0, conc |-> FALSE]

\* The result a call hands back to its caller.
RetOf(c, e, hd) ==
    [op |-> c.op, key |-> IF c.sub = "none" THEN "none" ELSE SubID(c.sub),
     err |-> e, h |-> hd, conc |-> c.conc]

\* A subscriptionWrapper: inner spec, its sync.Once, the error it stored;
\* write is the state of the futmarket write goroutine's writeDone channel,
\* sent and commits count the requests written and the bodies completed.
NewWrapper(s) == [inner |-> s, once |-> "idle", err |-> "nil", write |-> "none",
                  sent |-> 0, commits |-> 0]

HandleIds == 1..Len(handles)

\* The handles Subscribe has returned: the user session creates the wrapper
\* two statements before it returns it.
Given(h) ==
    /\ h \in HandleIds
    /\ \A u \in Callers : ~(pc[u] = "sub_reg" /\ call[u].h = h)

\* router.Len(): the registered specs.
RouterLen == preSubs + Cardinality(router)
\* len(w.activeSubs)
ActiveCount == preSubs + Cardinality({k \in Keys : activeSubs[k] # 0})

\* The request a task's call sends: its method, its key and (spot) its id.
ReqOp(c) ==
    IF c.op = "Subscribe" THEN "sub"
    ELSE IF c.op = "Unsubscribe" THEN "unsub"
    ELSE IF c.op = "Connect" THEN "login"
    ELSE "ping"

ReqKey(c) == IF c.sub = "none" THEN "none" ELSE SubID(c.sub)

\* A plausible bug: a Router whose Register and Unregister take no lock.
RouterUnlocked == TRUE

\* handlerRouterImp.mu: Route holds the read lock from its first handler to
\* its last, Register and Unregister need the write lock.
\* A callback runs inside Route, so a call it makes runs under the read lock.
InRoute == pc[Reader] \in {"route", "callback"}

RouterWritable == ~InRoute

\* sync.Mutex.Lock on activeSubsMu succeeds only while nobody holds it.
\* A plausible bug: a Subscribe that does not take the lock.
MutexIgnored == TRUE

MutexFree == activeSubsMu = "free"

\* w.promisesMu: sendAndAwaitResponse takes it to put the promise in the map
\* or slot and to remove it; the futures handleMessage holds it from the
\* lookup of the promise to the end of router.Route (deferred Unlock), the
\* spot handleJSONMessage for the lookup and the settling only.
PromisesMuHolder ==
    IF family # "spot" /\ InRoute THEN Reader ELSE "free"

InitSession ==
    /\ activeSubs = [k \in Keys |-> 0]
    /\ activeSubsMu = "free"
    /\ router = {}
    /\ handles = <<>>
    /\ promisesMap = [i \in 0..opsLimit |-> "none"]
    /\ promiseSlot = "none"
    /\ prom = [t \in Requesters |-> NewPromise]
    /\ counter = 0
    /\ wire = {}
    /\ inbox = <<>>
    /\ connState = "created"
    /\ connCtxDone = FALSE
    /\ sockReader = "off"
    /\ clientClosed = 0
    /\ closeOnce = "idle"
    /\ closeErr = "nil"
    /\ pc = [t \in Tasks |-> IF t \in AppTasks THEN "idle" ELSE "off"]
    /\ call = [t \in Tasks |-> NoCall]
    /\ ret = [t \in Tasks |-> NoRet]
    /\ hist = [ops |-> 0, closes |-> 0, subOK |-> 0, unsubDone |-> 0, pings |-> 0,
               disconnects |-> 0, latency |-> 0, routed |-> 0, pushes |-> 0,
               got |-> {}, dup |-> FALSE, usedKeys |-> {}, unique |-> TRUE,
               closer |-> "none", cause |-> "none", routeCalls |-> 0]

InitPromise ==
    /\ tp = NewPromise
    /\ tpLog = <<>>
    /\ tpAwait = [w \in Waiters |-> NoAwait]

-----------------------------------------------------------------------------
(* Calls of the application                                                 *)

\* A plausible bug: the caller's context passed on as it is.
EnsureDeadlineKeeps(hasDeadline) == hasDeadline

\* ensureDeadline(ctx, fallback): whether the context it returns has a
\* deadline, given whether the caller's has one.
EnsureDeadline(hasDeadline) == IF hasDeadline THEN hasDeadline ELSE TRUE

\* A call returns to its caller: the result is recorded, the task is idle.
Return(t, r) ==
    /\ ret' = [ret EXCEPT ![t] = r]
    /\ pc' = [pc EXCEPT ![t] = "idle"]
    /\ call' = [call EXCEPT ![t] = NoCall]

\* The application uses the session once Connect has returned.
ConnectReturned == \A u \in AppTasks : call[u].op # "Connect"

\* The other tasks that are inside Subscribe for key k (history, for the
\* concurrency properties).
ConcurrentWith(t, k) ==
    {u \in AppTasks \ {t} : call[u].op = "Subscribe" /\ SubID(call[u].sub) = k}

\* A plausible bug: the workers started before client.Connect's error is
\* looked at.
WorkersStartedAlways(ok) == TRUE

\* Connect: whether readingMessage and startPinger are reached, given that
\* client.Connect succeeded or not.
WorkersStarted(ok) == ok

\* Connect: client.Connect, then the read loop and the pinger are started.
\* The user session goes on to login() before it returns.
Connect(t, ok) ==
    /\ pc[t] = "idle"
    /\ connState = "created"
    /\ connState' = IF ok THEN "connected" ELSE "failed"
    /\ sockReader' = IF ok THEN "on" ELSE sockReader
    /\ LET login == ok /\ family = "futuser"
           workers == IF WorkersStarted(ok)
                        THEN [pc EXCEPT ![Reader] = "read", ![Pinger] = "wait"]
                        ELSE pc
       IN /\ pc' = IF login THEN [workers EXCEPT ![t] = "login_lock"] ELSE workers
          /\ call' = IF login
                       THEN [call EXCEPT ![t] = [NoCall EXCEPT !.op = "Connect",
                                                              !.deadline = TRUE]]
                       ELSE call
          /\ ret' = IF login THEN ret
                    ELSE [ret EXCEPT ![t] = [NoRet EXCEPT !.op = "Connect",
                                   !.err = IF ok THEN "nil" ELSE "ErrWSConnection"]]
    /\ UNCHANGED <<promiseVars, family, preSubs, opsLimit, outChCap, activeSubs, activeSubsMu, router,
                   handles, promisesMap, promiseSlot, prom, counter, wire, inbox,
                   connCtxDone, clientClosed, closeOnce, closeErr, hist>>

\* login(): w.activeSubsMu.Lock(), then sendAndAwaitResponse.
LoginLock(t) ==
    /\ pc[t] = "login_lock"
    /\ MutexFree
    /\ activeSubsMu' = t
    /\ pc' = [pc EXCEPT ![t] = "saw_reg"]
    /\ UNCHANGED <<promiseVars, family, preSubs, opsLimit, outChCap, activeSubs, router, handles,
                   promisesMap, promiseSlot, prom, counter, wire, inbox, connState,
                   connCtxDone, sockReader, clientClosed, closeOnce, closeErr,
                   call, ret, hist>>

\* login() returned: unlock; on failure Connect closes the session and
\* returns the login error (the application then has no session to use).
LoginRet(t) ==
    /\ pc[t] = "login_ret"
    /\ activeSubsMu' = "free"
    /\ IF call[t].err = "nil"
         THEN /\ Return(t, RetOf(call[t], "nil", 0))
              /\ connState' = connState
         ELSE /\ pc' = [pc EXCEPT ![t] = "close_once"]
              /\ connState' = "failed"
              /\ UNCHANGED <<call, ret>>
    /\ UNCHANGED <<promiseVars, family, preSubs, opsLimit, outChCap, activeSubs, router, handles,
                   promisesMap, promiseSlot, prom, counter, wire, inbox,
                   connCtxDone, sockReader, clientClosed, closeOnce, closeErr, hist>>

\* The application calls Subscribe(ctx, sub), with a context that has a
\* deadline or has none.
SubscribeCall(t, s) ==
    /\ pc[t] = "idle"
    /\ connState = "connected"
    /\ ConnectReturned
    /\ hist.ops < opsLimit
    /\ LET k == SubID(s)
           partners == ConcurrentWith(t, k)
       IN /\ \E d \in BOOLEAN :
                call' = [u \in Tasks |->
                        IF u = t
                          THEN [NoCall EXCEPT !.op = "Subscribe", !.sub = s,
                                              !.conc = partners # {},
                                              !.deadline = EnsureDeadline(d)]
                        ELSE IF u \in partners THEN [call[u] EXCEPT !.conc = TRUE]
                        ELSE call[u]]
          /\ hist' = [hist EXCEPT !.ops = @ + 1,
                                  !.unique = @ /\ k \notin hist.usedKeys,
                                  !.usedKeys = @ \cup {k}]
    /\ pc' = [pc EXCEPT ![t] = "sub_lock"]
    /\ ret' = [ret EXCEPT ![t] = NoRet]
    /\ UNCHANGED <<promiseVars, family, preSubs, opsLimit, outChCap, activeSubs, activeSubsMu, router,
                   handles, promisesMap, promiseSlot, prom, counter, wire, inbox,
                   connState, connCtxDone, sockReader, clientClosed, closeOnce,
                   closeErr>>

\* A plausible bug: the limit checked before the duplicate.
SubscribeCheckLimitFirst(k) ==
    IF RouterLen >= maxCountSubscribes THEN "ErrMaxCountSubscribes"
    ELSE IF activeSubs[k] # 0 THEN "ErrDuplicateSubscription"
    ELSE "nil"

\* A plausible bug: the limit compared with > instead of >=.
SubscribeCheckOffByOne(k) ==
    IF activeSubs[k] # 0 THEN "ErrDuplicateSubscription"
    ELSE IF RouterLen > maxCountSubscribes THEN "ErrMaxCountSubscribes"
    ELSE "nil"

\* Subscribe's admission checks, in the order of the code.
SubscribeCheck(k) ==
    IF activeSubs[k] # 0 THEN "ErrDuplicateSubscription"
    ELSE IF RouterLen >= maxCountSubscribes THEN "ErrMaxCountSubscribes"
    ELSE "nil"

\* Subscribe takes activeSubsMu and runs the checks; a failed check returns
\* at once (the deferred Unlock runs), otherwise the lock stays held.
SubscribeLock(t) ==
    /\ pc[t] = "sub_lock"
    /\ MutexFree
    /\ LET verdict == SubscribeCheck(SubID(call[t].sub))
       IN IF verdict # "nil"
            THEN /\ Return(t, RetOf(call[t], verdict, 0))
                 /\ UNCHANGED <<activeSubsMu, counter>>
            ELSE /\ activeSubsMu' = t
                 /\ ret' = ret
                 /\ IF family = "futuser"
                      THEN /\ pc' = [pc EXCEPT ![t] = "sub_put"]
                           /\ UNCHANGED <<call, counter>>
                      ELSE /\ pc' = [pc EXCEPT ![t] = "saw_reg"]
                           /\ IF family = "spot"
                                THEN /\ counter' = counter + 1
                                     /\ call' = [call EXCEPT ![t].reqId = counter + 1]
                                ELSE UNCHANGED <<call, counter>>
    /\ UNCHANGED <<promiseVars, family, preSubs, opsLimit, outChCap, activeSubs, router, handles,
                   promisesMap, promiseSlot, prom, wire, inbox, connState,
                   connCtxDone, sockReader, clientClosed, closeOnce, closeErr, hist>>

\* Market sessions, after sendAndAwaitResponse: on an error return it; on
\* success record the wrapper and register the spec.  The deferred Unlock
\* runs on both paths.
SubCommit(t) ==
    /\ pc[t] = "sub_commit"
    /\ activeSubsMu' = "free"
    /\ IF call[t].err # "nil"
         THEN /\ Return(t, RetOf(call[t], call[t].err, 0))
              /\ UNCHANGED <<handles, activeSubs, router, hist>>
         ELSE /\ RouterWritable
              /\ handles' = Append(handles, NewWrapper(call[t].sub))
              /\ activeSubs' = [activeSubs EXCEPT ![SubID(call[t].sub)] = Len(handles) + 1]
              /\ router' = router \cup {call[t].sub}
              /\ hist' = [hist EXCEPT !.subOK = @ + 1]
              /\ Return(t, RetOf(call[t], "nil", Len(handles) + 1))
    /\ UNCHANGED <<promiseVars, family, preSubs, opsLimit, outChCap, promisesMap, promiseSlot, prom,
                   counter, wire, inbox, connState, connCtxDone, sockReader,
                   clientClosed, closeOnce, closeErr>>

\* User session: w.activeSubs[subID] = wrapper
SubPut(t) ==
    /\ pc[t] = "sub_put"
    /\ handles' = Append(handles, NewWrapper(call[t].sub))
    /\ activeSubs' = [activeSubs EXCEPT ![SubID(call[t].sub)] = Len(handles) + 1]
    /\ call' = [call EXCEPT ![t].h = Len(handles) + 1]
    /\ pc' = [pc EXCEPT ![t] = "sub_reg"]
    /\ UNCHANGED <<promiseVars, family, preSubs, opsLimit, outChCap, activeSubsMu, router, promisesMap,
                   promiseSlot, prom, counter, wire, inbox, connState, connCtxDone,
                   sockReader, clientClosed, closeOnce, closeErr, ret, hist>>

\* User session: w.router.Register(sub); return wrapper (deferred Unlock).
SubReg(t) ==
    /\ pc[t] = "sub_reg"
    /\ RouterWritable
    /\ router' = router \cup {call[t].sub}
    /\ activeSubsMu' = "free"
    /\ hist' = [hist EXCEPT !.subOK = @ + 1]
    /\ Return(t, RetOf(call[t], "nil", call[t].h))
    /\ UNCHANGED <<promiseVars, family, preSubs, opsLimit, outChCap, activeSubs, handles, promisesMap,
                   promiseSlot, prom, counter, wire, inbox, connState, connCtxDone,
                   sockReader, clientClosed, closeOnce, closeErr>>

-----------------------------------------------------------------------------
(* Handle.Unsubscribe                                                       *)

\* The application calls Unsubscribe(ctx) on a handle it was given, with a
\* context that has a deadline or has none.
UnsubscribeCall(t, h) ==
    /\ pc[t] = "idle"
    /\ hist.ops < opsLimit
    /\ Given(h)
    /\ \E d \in BOOLEAN :
          call' = [call EXCEPT ![t] = [NoCall EXCEPT !.op = "Unsubscribe", !.h = h,
                                                 !.sub = handles[h].inner,
                                                 !.deadline = EnsureDeadline(d)]]
    /\ hist' = [hist EXCEPT !.ops = @ + 1]
    /\ pc' = [pc EXCEPT ![t] = "unsub_once"]
    /\ ret' = [ret EXCEPT ![t] = NoRet]
    /\ UNCHANGED <<promiseVars, family, preSubs, opsLimit, outChCap, activeSubs, activeSubsMu, router,
                   handles, promisesMap, promiseSlot, prom, counter, wire, inbox,
                   connState, connCtxDone, sockReader, clientClosed, closeOnce,
                   closeErr>>

\* sync.Once.Do: "run" for the first caller, "wait" while the first caller's
\* body is running, "skip" once it has completed.
\* A plausible bug: no single-fire guard, every call runs the body.
OnceAlwaysRun(state) == "run"

OnceDo(state) ==
    IF state = "idle" THEN "run" ELSE IF state = "running" THEN "wait" ELSE "skip"

\* A plausible bug: a later call returning nil instead of the stored error.
WrapperErrNil(h) == "nil"

\* The error Unsubscribe returns after the once: s.err in the market
\* sessions, always nil in the user session.
WrapperErr(h) == IF family = "futuser" THEN "nil" ELSE handles[h].err

\* s.once.Do(...): the first caller enters the body, a caller arriving while
\* the body runs waits, a later caller returns the stored outcome.
UnsubOnce(t) ==
    /\ pc[t] = "unsub_once"
    /\ LET h == call[t].h
           todo == OnceDo(handles[h].once)
       IN /\ todo # "wait"
          /\ IF todo = "skip"
               THEN /\ Return(t, RetOf(call[t], WrapperErr(h), h))
                    /\ handles' = handles
               ELSE /\ handles' = [handles EXCEPT ![h].once = "running"]
                    /\ pc' = [pc EXCEPT ![t] =
                                IF family = "futuser" THEN "uu_delete" ELSE "unsub_lock"]
                    /\ UNCHANGED <<call, ret>>
    /\ UNCHANGED <<promiseVars, family, preSubs, opsLimit, outChCap, activeSubs, activeSubsMu, router,
                   promisesMap, promiseSlot, prom, counter, wire, inbox, connState,
                   connCtxDone, sockReader, clientClosed, closeOnce, closeErr, hist>>

\* A plausible bug: the body forgetting router.Unregister.
DeregisteredKeepsSpec(h, e) ==
    /\ handles' = [handles EXCEPT ![h].once = "done", ![h].err = e,
                                  ![h].commits = @ + 1]
    /\ activeSubs' = [activeSubs EXCEPT ![SubID(handles[h].inner)] = 0]
    /\ router' = router
    /\ hist' = [hist EXCEPT !.unsubDone = @ + 1]

\* A plausible bug: the body returning early on a failed request, before the
\* deregistration.
DeregisteredOnSuccess(h, e) ==
    /\ handles' = [handles EXCEPT ![h].once = "done", ![h].err = e,
                                  ![h].commits = @ + 1]
    /\ activeSubs' = IF e = "nil"
                       THEN [activeSubs EXCEPT ![SubID(handles[h].inner)] = 0]
                       ELSE activeSubs
    /\ router' = IF e = "nil" THEN router \ {handles[h].inner} ELSE router
    /\ hist' = [hist EXCEPT !.unsubDone = @ + 1]

\* The body's local deregistration and the end of the once:
\* delete(activeSubs, id); router.Unregister(inner).
Deregistered(h, e) ==
    /\ RouterWritable
    /\ handles' = [handles EXCEPT ![h].once = "done", ![h].err = e,
                                  ![h].commits = @ + 1]
    /\ activeSubs' = [activeSubs EXCEPT ![SubID(handles[h].inner)] = 0]
    /\ router' = router \ {handles[h].inner}
    /\ hist' = [hist EXCEPT !.unsubDone = @ + 1]

\* Market sessions: the body takes activeSubsMu.  Spot goes on to
\* sendAndAwaitResponse with a fresh id.  Futures market serializes the
\* request (a failure deregisters at once) and hands the write to a goroutine.
UnsubLock(t, marshalOK) ==
    /\ pc[t] = "unsub_lock"
    /\ MutexFree
    /\ LET h == call[t].h
       IN IF family = "spot"
            THEN /\ marshalOK
                 /\ activeSubsMu' = t
                 /\ counter' = counter + 1
                 /\ call' = [call EXCEPT ![t].reqId = counter + 1]
                 /\ pc' = [pc EXCEPT ![t] = "saw_reg"]
                 /\ UNCHANGED <<handles, activeSubs, router, hist, ret>>
            ELSE IF marshalOK
              THEN /\ activeSubsMu' = t
                   /\ handles' = [handles EXCEPT ![h].write = "pending"]
                   /\ pc' = [pc EXCEPT ![t] = "fu_select"]
                   /\ UNCHANGED <<counter, call, activeSubs, router, hist, ret>>
              ELSE /\ Deregistered(h, "ErrWSWrite")
                   /\ Return(t, RetOf(call[t], "ErrWSWrite", h))
                   /\ UNCHANGED <<activeSubsMu, counter>>
    /\ UNCHANGED <<promiseVars, family, preSubs, opsLimit, outChCap, promisesMap, promiseSlot, prom,
                   wire, inbox, connState, connCtxDone, sockReader, clientClosed,
                   closeOnce, closeErr>>

\* Futures market: the goroutine's client.WriteMessage(msg) completes and
\* puts its result in writeDone.  A write on a closed transport fails.
FuWrite(h, ok) ==
    /\ family = "futmarket"
    /\ h \in HandleIds
    /\ handles[h].write = "pending"
    /\ ok => clientClosed = 0
    /\ handles' = [handles EXCEPT ![h].write = IF ok THEN "ok" ELSE "fail",
                                  ![h].sent = IF ok THEN @ + 1 ELSE @]
    /\ wire' = IF ok THEN wire \cup {Request("unsub", SubID(handles[h].inner), 0)}
               ELSE wire
    /\ UNCHANGED <<promiseVars, family, preSubs, opsLimit, outChCap, activeSubs, activeSubsMu, router,
                   promisesMap, promiseSlot, prom, counter, inbox, connState,
                   connCtxDone, sockReader, clientClosed, closeOnce, closeErr,
                   pc, call, ret, hist>>

\* Futures market: select { <-ctx.Done(): timeout; err := <-writeDone },
\* then the deregistration; the acknowledgment is not awaited.
FuSelect(t, byCtx) ==
    /\ pc[t] = "fu_select"
    /\ LET h == call[t].h
           e == IF byCtx THEN "ErrWSMessageTimeout"
                ELSE IF handles[h].write = "fail" THEN "ErrWSWrite" ELSE "nil"
       IN /\ IF byCtx THEN call[t].ctxDone ELSE handles[h].write \in {"ok", "fail"}
          /\ Deregistered(h, e)
          /\ Return(t, RetOf(call[t], e, h))
    /\ activeSubsMu' = "free"
    /\ UNCHANGED <<promiseVars, family, preSubs, opsLimit, outChCap, promisesMap, promiseSlot, prom,
                   counter, wire, inbox, connState, connCtxDone, sockReader,
                   clientClosed, closeOnce, closeErr>>

\* Spot, after sendAndAwaitResponse: s.err = its result, whatever it is,
\* then the deregistration and the deferred Unlock.
UnsubCommit(t) ==
    /\ pc[t] = "unsub_commit"
    /\ Deregistered(call[t].h, call[t].err)
    /\ Return(t, RetOf(call[t], call[t].err, call[t].h))
    /\ activeSubsMu' = "free"
    /\ UNCHANGED <<promiseVars, family, preSubs, opsLimit, outChCap, promisesMap, promiseSlot, prom,
                   counter, wire, inbox, connState, connCtxDone, sockReader,
                   clientClosed, closeOnce, closeErr>>

\* User session: delete(s.ws.activeSubs, s.inner.id()), no lock taken: the
\* statement runs at any point of another task's Subscribe.
UuDelete(t) ==
    /\ pc[t] = "uu_delete"
    /\ activeSubs' = [activeSubs EXCEPT ![SubID(handles[call[t].h].inner)] = 0]
    /\ pc' = [pc EXCEPT ![t] = "uu_unreg"]
    /\ UNCHANGED <<promiseVars, family, preSubs, opsLimit, outChCap, activeSubsMu, router, handles,
                   promisesMap, promiseSlot, prom, counter, wire, inbox, connState,
                   connCtxDone, sockReader, clientClosed, closeOnce, closeErr,
                   call, ret, hist>>

\* User session: s.ws.router.Unregister(s.inner); the once is done; return nil.
UuUnreg(t) ==
    /\ pc[t] = "uu_unreg"
    /\ RouterWritable
    /\ LET h == call[t].h
       IN /\ router' = router \ {handles[h].inner}
          /\ handles' = [handles EXCEPT ![h].once = "done", ![h].commits = @ + 1]
          /\ hist' = [hist EXCEPT !.unsubDone = @ + 1]
          /\ Return(t, RetOf(call[t], "nil", h))
    /\ UNCHANGED <<promiseVars, family, preSubs, opsLimit, outChCap, activeSubs, activeSubsMu,
                   promisesMap, promiseSlot, prom, counter, wire, inbox, connState,
                   connCtxDone, sockReader, clientClosed, closeOnce, closeErr>>

-----------------------------------------------------------------------------
(* sendAndAwaitResponse                                                     *)

\* The promise is created and put in the map (spot) or the slot (futures),
\* under promisesMu.
SawRegister(t) ==
    /\ pc[t] = "saw_reg"
    /\ PromisesMuHolder = "free"
    /\ prom' = [prom EXCEPT ![t] = NewPromise]
    /\ IF family = "spot"
         THEN /\ promisesMap' = [promisesMap EXCEPT ![call[t].reqId] = t]
              /\ promiseSlot' = promiseSlot
         ELSE /\ promiseSlot' = t
              /\ promisesMap' = promisesMap
    /\ pc' = [pc EXCEPT ![t] = "saw_write"]
    /\ UNCHANGED <<promiseVars, family, preSubs, opsLimit, outChCap, activeSubs, activeSubsMu, router,
                   handles, counter, wire, inbox, connState, connCtxDone,
                   sockReader, clientClosed, closeOnce, closeErr, call, ret, hist>>

\* req.Message() and client.WriteMessage(msg): either may fail, and both
\* failures are returned as ErrWSWrite.  A write on a closed transport fails.
SawWrite(t, outcome) ==
    /\ pc[t] = "saw_write"
    /\ outcome = "ok" => clientClosed = 0
    /\ IF outcome = "ok"
         THEN /\ wire' = wire \cup {Request(ReqOp(call[t]), ReqKey(call[t]), call[t].reqId)}
              /\ call' = [call EXCEPT ![t].sent = TRUE]
              /\ handles' = IF call[t].op = "Unsubscribe"
                              THEN [handles EXCEPT ![call[t].h].sent = @ + 1]
                              ELSE handles
              /\ pc' = [pc EXCEPT ![t] = "saw_await"]
         ELSE /\ call' = [call EXCEPT ![t].err = "ErrWSWrite", ![t].cause = outcome]
              /\ pc' = [pc EXCEPT ![t] = "saw_defer"]
              /\ UNCHANGED <<wire, handles>>
    /\ UNCHANGED <<promiseVars, family, preSubs, opsLimit, outChCap, activeSubs, activeSubsMu, router,
                   promisesMap, promiseSlot, prom, counter, inbox, connState,
                   connCtxDone, sockReader, clientClosed, closeOnce, closeErr,
                   ret, hist>>

\* The deadline of a call's context passes.  The context is looked at only
\* in Await's select and in the futures-market Unsubscribe's select.
CtxDone(t) ==
    /\ pc[t] \in {"saw_await", "fu_select"}
    /\ call[t].deadline
    /\ ~call[t].ctxDone
    /\ call' = [call EXCEPT ![t].ctxDone = TRUE]
    /\ UNCHANGED <<promiseVars, family, preSubs, opsLimit, outChCap, activeSubs, activeSubsMu, router,
                   handles, promisesMap, promiseSlot, prom, counter, wire, inbox,
                   connState, connCtxDone, sockReader, clientClosed, closeOnce,
                   closeErr, pc, ret, hist>>

\* A plausible bug: the two sources mapped to each other's kind.
ErrKindSwapped(out) ==
    IF ~out.isErr THEN "nil"
    ELSE IF out.src = FromContext THEN "ErrWSServerError"
    ELSE IF out.src = FromServer THEN "ErrWSMessageTimeout"
    ELSE "panic"

\* The switch on perr.Source after Await; any other source is the
\* panic("unreachable").
ErrKind(out) ==
    IF ~out.isErr THEN "nil"
    ELSE IF out.src = FromContext THEN "ErrWSMessageTimeout"
    ELSE IF out.src = FromServer THEN "ErrWSServerError"
    ELSE "panic"

\* promise.Await(ctx) returns and its outcome is turned into the typed error.
SawAwait(t) ==
    /\ pc[t] = "saw_await"
    /\ \E out \in AwaitCases(prom[t], call[t].ctxDone) :
        /\ prom' = [prom EXCEPT ![t] = AwaitTake(prom[t], out)]
        /\ call' = [call EXCEPT ![t].err = ErrKind(out),
                        ![t].cause = IF ~out.isErr THEN "none"
                                     ELSE IF out.src = FromContext THEN "ctx"
                                     ELSE "server"]
    /\ pc' = [pc EXCEPT ![t] = "saw_defer"]
    /\ UNCHANGED <<promiseVars, family, preSubs, opsLimit, outChCap, activeSubs, activeSubsMu, router,
                   handles, promisesMap, promiseSlot, counter, wire, inbox,
                   connState, connCtxDone, sockReader, clientClosed, closeOnce,
                   closeErr, ret, hist>>

\* Where a call goes on after sendAndAwaitResponse returned.
AfterSaw(c) ==
    IF c.op = "Subscribe" THEN "sub_commit"
    ELSE IF c.op = "Unsubscribe" THEN "unsub_commit"
    ELSE IF c.op = "Connect" THEN "login_ret"
    ELSE "ping_ret"

\* The deferred function: delete(promisesMap, id) or w.promise = nil.
SawDefer(t) ==
    /\ pc[t] = "saw_defer"
    /\ PromisesMuHolder = "free"
    /\ IF family = "spot"
         THEN /\ promisesMap' = [promisesMap EXCEPT ![call[t].reqId] = "none"]
              /\ promiseSlot' = promiseSlot
         ELSE /\ promiseSlot' = "none"
              /\ promisesMap' = promisesMap
    /\ pc' = [pc EXCEPT ![t] = AfterSaw(call[t])]
    /\ UNCHANGED <<promiseVars, family, preSubs, opsLimit, outChCap, activeSubs, activeSubsMu, router,
                   handles, prom, counter, wire, inbox, connState, connCtxDone,
                   sockReader, clientClosed, closeOnce, closeErr, call, ret, hist>>

-----------------------------------------------------------------------------
(* Close                                                                    *)

\* The application calls Close() on a connected session (client.Close
\* panics before a successful Connect).
CloseCall(t) ==
    /\ pc[t] = "idle"
    /\ connState = "connected"
    /\ ConnectReturned
    /\ hist.closes < MaxCloses
    /\ call' = [call EXCEPT ![t] = [NoCall EXCEPT !.op = "Close"]]
    /\ hist' = [hist EXCEPT !.closes = @ + 1]
    /\ pc' = [pc EXCEPT ![t] = "close_once"]
    /\ ret' = [ret EXCEPT ![t] = NoRet]
    /\ UNCHANGED <<promiseVars, family, preSubs, opsLimit, outChCap, activeSubs, activeSubsMu, router,
                   handles, promisesMap, promiseSlot, prom, counter, wire, inbox,
                   connState, connCtxDone, sockReader, clientClosed, closeOnce,
                   closeErr>>

\* Close returns to its caller: an application task gets the result (Connect
\* returns the login error instead), the read loop and the pinger end.
CloseReturn(t, e) ==
    IF t \in AppTasks
      THEN Return(t, RetOf(call[t], IF call[t].op = "Connect" THEN call[t].err ELSE e, 0))
      ELSE /\ pc' = [pc EXCEPT ![t] = "done"]
           /\ ret' = [ret EXCEPT ![t] = [NoRet EXCEPT !.op = "Close", !.err = e]]
           /\ call' = [call EXCEPT ![t] = NoCall]

\* w.closeOnce.Do(...): the first caller goes on to close the transport, a
\* caller arriving meanwhile waits, a later caller returns w.closeErr.
CloseOnce(t) ==
    /\ pc[t] = "close_once"
    /\ LET todo == OnceDo(closeOnce)
       IN /\ todo # "wait"
          /\ IF todo = "skip"
               THEN /\ CloseReturn(t, closeErr)
                    /\ closeOnce' = closeOnce
               ELSE /\ closeOnce' = "running"
                    /\ pc' = [pc EXCEPT ![t] = "close_do"]
                    /\ UNCHANGED <<call, ret>>
    /\ UNCHANGED <<promiseVars, family, preSubs, opsLimit, outChCap, activeSubs, activeSubsMu, router,
                   handles, promisesMap, promiseSlot, prom, counter, wire, inbox,
                   connState, connCtxDone, sockReader, clientClosed, closeErr, hist>>

\* The body: err := w.client.Close(); a non-nil err is stored as ErrWSClose.
CloseDo(t, e) ==
    /\ pc[t] = "close_do"
    /\ e \in {"nil", "ErrWSClose"}
    /\ clientClosed' = clientClosed + 1
    /\ closeErr' = e
    /\ closeOnce' = "done"
    /\ hist' = [hist EXCEPT !.closer = IF call[t].op = "Close" THEN "application"
                                      ELSE "session"]
    /\ CloseReturn(t, e)
    /\ UNCHANGED <<promiseVars, family, preSubs, opsLimit, outChCap, activeSubs, activeSubsMu, router,
                   handles, promisesMap, promiseSlot, prom, counter, wire, inbox,
                   connState, connCtxDone, sockReader>>

-----------------------------------------------------------------------------
(* The read loop                                                            *)

\* Channel of a key: k1 and k2 are two symbols of one futures channel, whose
\* acknowledgment ("rs.sub." + channel) carries no symbol.
Channel(k) == "c1"

\* The predicate of the pending request applied to a frame: (accepted, err).
\* Spot: spec.matches is msg.Msg == streamName, the ping's is code 0 and PONG.
\* Futures: the request's acknowledgment is accepted, so is any rs.error
\* frame, with an error.
Match(c, f) ==
    IF family = "spot"
      THEN [ok |-> IF ReqOp(c) = "ping" THEN f.kind = "pong"
                   ELSE f.kind = "ack" /\ f.key = ReqKey(c),
            err |-> FALSE]
    ELSE IF f.kind = "err" THEN [ok |-> TRUE, err |-> TRUE]
    ELSE IF ReqOp(c) = "ping" THEN [ok |-> f.kind = "pong", err |-> FALSE]
    ELSE IF ReqOp(c) = "login" THEN [ok |-> f.kind = "login", err |-> FALSE]
    ELSE [ok |-> f.kind = "ack" /\ f.op = "sub" /\ Channel(f.key) = Channel(ReqKey(c)),
          err |-> FALSE]

\* acceptEvent: a push frame of the spec's own stream.
AcceptEvent(s, f) == f.kind = "push" /\ f.key = SubID(s)

\* router.Route(msg) begins: under the read lock, the registered specs whose
\* acceptEvent is true are the handlers to run; with none the call is over.
Route(f) ==
    LET todo == {s \in router : AcceptEvent(s, f)}
    IN /\ hist' = [hist EXCEPT !.routeCalls = @ + 1]
       /\ IF todo = {}
            THEN /\ pc' = [pc EXCEPT ![Reader] = "read"]
                 /\ call' = call
            ELSE /\ pc' = [pc EXCEPT ![Reader] = "route"]
                 /\ call' = [call EXCEPT ![Reader].frame = f, ![Reader].todo = todo]

\* The pending promise of task o is settled by the read loop (history: how,
\* and the key of the request the settling frame answers).
Settle(o, resolve, f) ==
    /\ prom' = [prom EXCEPT ![o] = IF resolve THEN Resolve(prom[o], f.kind)
                                   ELSE Reject(prom[o], f.kind)]
    /\ call' = [call EXCEPT ![o].settled =
                    IF prom[o].once THEN @
                    ELSE IF resolve THEN "resolved" ELSE "rejected",
                             ![o].ackKey = IF prom[o].once THEN @ ELSE f.key]

\* Spot handleMessage: a JSON frame goes to the promise registered under its
\* id, if any (resolved on a match, rejected otherwise) and never to the
\* router; a protobuf frame goes to the router.
HandleSpot(f) ==
    IF f.kind = "push"
      THEN /\ Route(f)
           /\ prom' = prom
      ELSE /\ pc' = [pc EXCEPT ![Reader] = "read"]
           /\ hist' = hist
           /\ IF promisesMap[f.id] = "none"
                THEN UNCHANGED <<prom, call>>
                ELSE Settle(promisesMap[f.id], Match(call[promisesMap[f.id]], f).ok, f)

\* A plausible bug: the frame goes to the router without being offered.
ClaimedNever(f) == FALSE

\* Futures: if w.promise != nil { ok, err := w.promise.Match(msg); if ok ...
Claimed(f) == promiseSlot # "none" /\ Match(call[promiseSlot], f).ok

\* Futures handleMessage: the frame is offered to the pending promise; an
\* accepted frame settles it and is not routed, any other frame is routed.
HandleFutures(f) ==
    IF Claimed(f)
      THEN /\ Settle(promiseSlot, ~Match(call[promiseSlot], f).err, f)
           /\ pc' = [pc EXCEPT ![Reader] = "read"]
           /\ hist' = hist
      ELSE /\ Route(f)
           /\ prom' = prom

\* Top of the loop: select { case <-ctx.Done(): return; default: read }.
\* The deferred w.Close() runs on return.
ReaderSelect ==
    /\ pc[Reader] = "read"
    /\ pc' = [pc EXCEPT ![Reader] = IF connCtxDone THEN "close_once" ELSE "recv"]
    /\ UNCHANGED <<promiseVars, family, preSubs, opsLimit, outChCap, activeSubs, activeSubsMu, router,
                   handles, promisesMap, promiseSlot, prom, counter, wire, inbox,
                   connState, connCtxDone, sockReader, clientClosed, closeOnce,
                   closeErr, call, ret, hist>>

\* client.ReadMessage() returns the next queued result: an error ends the
\* loop after onDisconnect, a frame is handled.
ReaderRecv ==
    /\ pc[Reader] = "recv"
    /\ inbox # <<>>
    /\ inbox' = Tail(inbox)
    /\ LET f == Head(inbox)
       IN IF f.kind = "readerr"
            THEN /\ hist' = [hist EXCEPT !.disconnects = @ + 1, !.cause = f.op]
                 /\ pc' = [pc EXCEPT ![Reader] = "close_once"]
                 /\ UNCHANGED <<prom, call>>
            ELSE IF family = "spot" THEN HandleSpot(f) ELSE HandleFutures(f)
    /\ UNCHANGED <<promiseVars, family, preSubs, opsLimit, outChCap, activeSubs, activeSubsMu, router,
                   handles, promisesMap, promiseSlot, counter, wire, connState,
                   connCtxDone, sockReader, clientClosed, closeOnce, closeErr, ret>>

\* Inside Route: handleEvent of one accepting spec runs.  It decodes the
\* payload and calls the spec's data callback, or its invalid-payload
\* callback when the payload does not decode.  After the last handler the
\* read lock is released and the loop goes on.
\* handleEvent of a subscription: the payload is decoded; a decode failure is
\* reported to the subscription's own onInvalid (when set) and the handler
\* returns, otherwise onData receives the decoded value.
HandleEventData(f) == "data"

HandleEvent(f) == IF f.op = "valid" THEN "data" ELSE "invalid"

RouteDeliver(s) ==
    /\ pc[Reader] = "route"
    /\ s \in call[Reader].todo
    /\ LET f == call[Reader].frame
           rest == call[Reader].todo \ {s}
       IN /\ hist' = [hist EXCEPT
                        !.routed = @ + 1,
                        !.got = @ \cup {[s |-> s, id |-> f.id,
                                         cb |-> HandleEvent(f)]},
                        !.dup = @ \/ (\E g \in hist.got : g.s = s /\ g.id = f.id)]
          /\ IF rest = {}
               THEN /\ pc' = [pc EXCEPT ![Reader] = "read"]
                    /\ call' = [call EXCEPT ![Reader] = NoCall]
               ELSE /\ pc' = pc
                    /\ call' = [call EXCEPT ![Reader].todo = rest]
    /\ UNCHANGED <<promiseVars, family, preSubs, opsLimit, outChCap, activeSubs, activeSubsMu, router,
                   handles, promisesMap, promiseSlot, prom, counter, wire, inbox,
                   connState, connCtxDone, sockReader, clientClosed, closeOnce,
                   closeErr, ret>>

\* Inside Route: handleEvent of an accepting spec decodes the payload and
\* calls the data callback, which is application code and here calls the
\* session (c is the call).  The call runs on the read loop's goroutine,
\* below Route: the read lock stays held, and so does promisesMu in the
\* futures sessions, until the callback has returned.
EnterCallback(s, c, first) ==
    /\ pc[Reader] = "route"
    /\ s \in call[Reader].todo
    /\ HandleEvent(call[Reader].frame) = "data"
    /\ hist.ops < opsLimit
    /\ LET f == call[Reader].frame
       IN hist' = [hist EXCEPT
                     !.ops = @ + 1,
                     !.routed = @ + 1,
                     !.got = @ \cup {[s |-> s, id |-> f.id, cb |-> "data"]},
                     !.dup = @ \/ (\E g \in hist.got : g.s = s /\ g.id = f.id),
                     !.unique = @ /\ (c.op = "Subscribe" => SubID(c.sub) \notin hist.usedKeys),
                     !.usedKeys = IF c.op = "Subscribe" THEN @ \cup {SubID(c.sub)} ELSE @]
    /\ call' = [call EXCEPT ![Reader].todo = @ \ {s}, ![Callback] = c]
    /\ pc' = [pc EXCEPT ![Reader] = "callback", ![Callback] = first]
    /\ ret' = [ret EXCEPT ![Callback] = NoRet]
    /\ UNCHANGED <<promiseVars, family, preSubs, opsLimit, outChCap, activeSubs, activeSubsMu, router,
                   handles, promisesMap, promiseSlot, prom, counter, wire, inbox,
                   connState, connCtxDone, sockReader, clientClosed, closeOnce,
                   closeErr>>

\* The data callback of s calls Subscribe(ctx, s2, ...).
CallbackSubscribe(s, s2) ==
    \E d \in BOOLEAN :
        EnterCallback(s, [NoCall EXCEPT !.op = "Subscribe", !.sub = s2,
                                        !.deadline = EnsureDeadline(d)],
                      "sub_lock")

\* The data callback of s calls Unsubscribe(ctx) on a handle the application
\* was given.
CallbackUnsubscribe(s, h) ==
    /\ Given(h)
    /\ \E d \in BOOLEAN :
        EnterCallback(s, [NoCall EXCEPT !.op = "Unsubscribe", !.h = h,
                                        !.sub = handles[h].inner,
                                        !.deadline = EnsureDeadline(d)],
                      "unsub_once")

\* The call made by the callback has returned: handleEvent returns, Route
\* goes to its next handler, and after the last one releases the read lock.
CallbackRet ==
    /\ pc[Reader] = "callback"
    /\ pc[Callback] = "idle"
    /\ IF call[Reader].todo = {}
         THEN /\ pc' = [pc EXCEPT ![Reader] = "read", ![Callback] = "off"]
              /\ call' = [call EXCEPT ![Reader] = NoCall]
         ELSE /\ pc' = [pc EXCEPT ![Reader] = "route", ![Callback] = "off"]
              /\ call' = call
    /\ UNCHANGED <<promiseVars, family, preSubs, opsLimit, outChCap, activeSubs, activeSubsMu, router,
                   handles, promisesMap, promiseSlot, prom, counter, wire, inbox,
                   connState, connCtxDone, sockReader, clientClosed, closeOnce,
                   closeErr, ret, hist>>

-----------------------------------------------------------------------------
(* The pinger                                                               *)

\* The ticker fires at every interval; the runs follow a bounded number of
\* ticks while the session is open, and every tick once it is closed.
TickerFires == hist.pings < MaxPings \/ clientClosed > 0

\* A plausible bug: the futures probe sent without the lock, as in spot.
ProbeUnlocked == FALSE

\* sendPing of the futures sessions takes activeSubsMu for the whole probe,
\* the spot session's takes no lock.
ProbeTakesLock == family # "spot"

\* ticker.C fires: sendPing.  The futures sessions take activeSubsMu first.
PingTick ==
    /\ pc[Pinger] = "wait"
    /\ TickerFires
    /\ hist' = [hist EXCEPT !.pings = @ + 1]
    /\ call' = [call EXCEPT ![Pinger] = [NoCall EXCEPT !.op = "ping",
                                                  !.reqId = reservedPongID,
                                                  !.deadline = TRUE]]
    /\ pc' = [pc EXCEPT ![Pinger] = IF ProbeTakesLock THEN "ping_lock" ELSE "saw_reg"]
    /\ UNCHANGED <<promiseVars, family, preSubs, opsLimit, outChCap, activeSubs, activeSubsMu, router,
                   handles, promisesMap, promiseSlot, prom, counter, wire, inbox,
                   connState, connCtxDone, sockReader, clientClosed, closeOnce,
                   closeErr, ret>>

\* select case <-ctx.Done(): return
PingerStop ==
    /\ pc[Pinger] = "wait"
    /\ connCtxDone
    /\ pc' = [pc EXCEPT ![Pinger] = "done"]
    /\ UNCHANGED <<promiseVars, family, preSubs, opsLimit, outChCap, activeSubs, activeSubsMu, router,
                   handles, promisesMap, promiseSlot, prom, counter, wire, inbox,
                   connState, connCtxDone, sockReader, clientClosed, closeOnce,
                   closeErr, call, ret, hist>>

PingLock ==
    /\ pc[Pinger] = "ping_lock"
    /\ MutexFree
    /\ activeSubsMu' = Pinger
    /\ pc' = [pc EXCEPT ![Pinger] = "saw_reg"]
    /\ UNCHANGED <<promiseVars, family, preSubs, opsLimit, outChCap, activeSubs, router, handles,
                   promisesMap, promiseSlot, prom, counter, wire, inbox, connState,
                   connCtxDone, sockReader, clientClosed, closeOnce, closeErr,
                   call, ret, hist>>

\* A plausible bug: a failed probe only skipped, the ticker awaited again.
AfterProbeRetry(err) == "wait"

\* startPinger's loop after sendPing returned err: the next tick is awaited,
\* or the session is closed and the goroutine returns.
AfterProbe(err) == IF err = "nil" THEN "wait" ELSE "close_once"

\* sendPing returned: on success the latency callback runs and the loop goes
\* on, on any error the pinger closes the session and ends.
PingRet ==
    /\ pc[Pinger] = "ping_ret"
    /\ activeSubsMu' = IF ProbeTakesLock THEN "free" ELSE activeSubsMu
    /\ LET e == call[Pinger].err
       IN /\ hist' = IF e = "nil" THEN [hist EXCEPT !.latency = @ + 1] ELSE hist
          /\ pc' = [pc EXCEPT ![Pinger] = AfterProbe(e)]
          /\ ret' = [ret EXCEPT ![Pinger] = RetOf(call[Pinger], e, 0)]
          /\ call' = IF AfterProbe(e) = "wait" THEN [call EXCEPT ![Pinger] = NoCall]
                     ELSE call
    /\ UNCHANGED <<promiseVars, family, preSubs, opsLimit, outChCap, activeSubs, router, handles,
                   promisesMap, promiseSlot, prom, counter, wire, inbox, connState,
                   connCtxDone, sockReader, clientClosed, closeOnce, closeErr>>

-----------------------------------------------------------------------------
(* The transport and the server                                             *)

\* NewClient and WithBufferedOutCh(n): the capacity of outCh.
defaultOutCh == 1000

WithBufferedOutCh(n) == IF n <= 0 THEN defaultOutCh ELSE n

\* A plausible bug: the newest frame put in front of the queue.
SendOrDropFront(q, f) == IF Len(q) < outChCap THEN <<f>> \o q ELSE q

\* A plausible bug: a full queue gives up its oldest frame for the new one.
SendOrDropOldest(q, f) == IF Len(q) < outChCap THEN Append(q, f) ELSE Append(Tail(q), f)

\* sendOrDrop: a non-blocking send on outCh; a full queue drops the frame.
SendOrDrop(q, f) == IF Len(q) < outChCap THEN Append(q, f) ELSE q

\* The server answers a request with its acknowledgment or with an error.
\* Spot replies echo the request id; a futures rs.error names no request.
Reply(rq, good) ==
    IF good
      THEN IF rq.op = "ping" THEN Frame("pong", "none", "none", rq.id)
           ELSE IF rq.op = "login" THEN Frame("login", "none", "none", rq.id)
           ELSE Frame("ack", rq.op, rq.key, rq.id)
      ELSE Frame("err", "none", "none", rq.id)

\* The socket delivers the server's answer to a request; startReader queues it.
ServerReply(rq, good) ==
    /\ rq \in wire
    /\ sockReader = "on"
    /\ wire' = wire \ {rq}
    /\ inbox' = SendOrDrop(inbox, Reply(rq, good))
    /\ UNCHANGED <<promiseVars, family, preSubs, opsLimit, outChCap, activeSubs, activeSubsMu, router,
                   handles, promisesMap, promiseSlot, prom, counter, connState,
                   connCtxDone, sockReader, clientClosed, closeOnce, closeErr,
                   pc, call, ret, hist>>

\* The server sends a push frame of stream k, with a payload that decodes
\* ("valid") or does not ("malformed"); startReader queues it.
ServerPush(k, payload) ==
    /\ sockReader = "on"
    /\ hist.pushes < MaxPushes
    /\ inbox' = SendOrDrop(inbox, Frame("push", payload, k, hist.pushes + 1))
    /\ hist' = [hist EXCEPT !.pushes = @ + 1]
    /\ UNCHANGED <<promiseVars, family, preSubs, opsLimit, outChCap, activeSubs, activeSubsMu, router,
                   handles, promisesMap, promiseSlot, prom, counter, wire,
                   connState, connCtxDone, sockReader, clientClosed, closeOnce,
                   closeErr, pc, call, ret>>

\* conn.ReadMessage fails (the network, or the connection was closed by
\* Close): readAndHandle queues the error and startReader ends.
SocketFail ==
    /\ sockReader = "on"
    /\ inbox' = SendOrDrop(inbox, Frame("readerr", IF clientClosed > 0 THEN "closed"
                                                   ELSE "network", "none", 0))
    /\ sockReader' = "stopped"
    /\ UNCHANGED <<promiseVars, family, preSubs, opsLimit, outChCap, activeSubs, activeSubsMu, router,
                   handles, promisesMap, promiseSlot, prom, counter, wire,
                   connState, connCtxDone, clientClosed, closeOnce, closeErr,
                   pc, call, ret, hist>>

\* The context given to Connect is cancelled or expires.
ConnCtxCancel ==
    /\ connState = "connected"
    /\ ~connCtxDone
    /\ connCtxDone' = TRUE
    /\ UNCHANGED <<promiseVars, family, preSubs, opsLimit, outChCap, activeSubs, activeSubsMu, router,
                   handles, promisesMap, promiseSlot, prom, counter, wire, inbox,
                   connState, sockReader, clientClosed, closeOnce, closeErr,
                   pc, call, ret, hist>>

\* startReader's select sees ctx.Done and returns without queueing anything.
TransportStop ==
    /\ sockReader = "on"
    /\ connCtxDone
    /\ sockReader' = "stopped"
    /\ UNCHANGED <<promiseVars, family, preSubs, opsLimit, outChCap, activeSubs, activeSubsMu, router,
                   handles, promisesMap, promiseSlot, prom, counter, wire, inbox,
                   connState, connCtxDone, clientClosed, closeOnce, closeErr,
                   pc, call, ret, hist>>

-----------------------------------------------------------------------------
(* Specifications                                                           *)

\* Connect, with the user session's login.
ConnectSteps ==
    \/ \E ok \in BOOLEAN : Connect("a1", ok)
    \/ \E t \in AppTasks : LoginLock(t)
    \/ \E t \in AppTasks : LoginRet(t)

\* Subscribe and Handle.Unsubscribe, from any application task.
SubscriptionSteps ==
    \/ \E t \in AppTasks, s \in Subs : SubscribeCall(t, s)
    \/ \E t \in AppTasks : SubscribeLock(t)
    \/ \E t \in AppTasks : SubCommit(t)
    \/ \E t \in AppTasks : SubPut(t)
    \/ \E t \in AppTasks : SubReg(t)
    \/ \E t \in AppTasks, h \in HandleIds : UnsubscribeCall(t, h)
    \/ \E t \in AppTasks : UnsubOnce(t)
    \/ \E t \in AppTasks, ok \in BOOLEAN : UnsubLock(t, ok)
    \/ \E h \in HandleIds, ok \in BOOLEAN : FuWrite(h, ok)
    \/ \E t \in AppTasks, byCtx \in BOOLEAN : FuSelect(t, byCtx)
    \/ \E t \in AppTasks : UnsubCommit(t)
    \/ \E t \in AppTasks : UuDelete(t)
    \/ \E t \in AppTasks : UuUnreg(t)

\* The statements of Subscribe and Handle.Unsubscribe after the call.
SubscriptionBodies ==
    \/ \E t \in AppTasks : SubscribeLock(t)
    \/ \E t \in AppTasks : SubCommit(t)
    \/ \E t \in AppTasks : SubPut(t)
    \/ \E t \in AppTasks : SubReg(t)
    \/ \E t \in AppTasks : UnsubOnce(t)
    \/ \E t \in AppTasks, ok \in BOOLEAN : UnsubLock(t, ok)
    \/ \E h \in HandleIds, ok \in BOOLEAN : FuWrite(h, ok)
    \/ \E t \in AppTasks, byCtx \in BOOLEAN : FuSelect(t, byCtx)
    \/ \E t \in AppTasks : UnsubCommit(t)
    \/ \E t \in AppTasks : UuDelete(t)
    \/ \E t \in AppTasks : UuUnreg(t)

\* sendAndAwaitResponse, for whoever calls it.
RequestSteps ==
    \/ \E t \in Requesters : SawRegister(t)
    \/ \E t \in Requesters, o \in {"ok", "serialize", "write"} : SawWrite(t, o)
    \/ \E t \in Requesters : CtxDone(t)
    \/ \E t \in Requesters : SawAwait(t)
    \/ \E t \in Requesters : SawDefer(t)

\* Close, for whoever calls it.
CloseSteps ==
    \/ \E t \in Tasks : CloseOnce(t)
    \/ \E t \in Tasks, e \in {"nil", "ErrWSClose"} : CloseDo(t, e)

\* The read loop and the server's replies.
ReadSteps ==
    \/ ReaderSelect
    \/ ReaderRecv
    \/ \E rq \in wire, good \in BOOLEAN : ServerReply(rq, good)

PingSteps ==
    \/ PingTick
    \/ PingLock
    \/ PingRet

\* The context given to Connect ends.
ConnCtxSteps ==
    \/ ConnCtxCancel
    \/ TransportStop
    \/ PingerStop

InitRest ==
    /\ InitSession
    /\ InitPromise

\* Spec: a session of any family; the application subscribes and
\* unsubscribes from two tasks.
Init ==
    /\ family \in Families
    /\ opsLimit = MaxOps
    /\ outChCap = InboxCap
    /\ preSubs = InitialSubs
    /\ InitRest

Next ==
    \/ ConnectSteps
    \/ SubscriptionSteps
    \/ RequestSteps
    \/ CloseSteps
    \/ ReadSteps

Spec == Init /\ [][Next]_vars

\* SpecUser: the user session alone, with a longer run.
InitUser ==
    /\ family = "futuser"
    /\ opsLimit = MaxUserOps
    /\ outChCap = InboxCap
    /\ preSubs = InitialSubs
    /\ InitRest

NextUser ==
    \/ ConnectSteps
    \/ \E t \in AppTasks, s \in UserSubs : SubscribeCall(t, s)
    \/ \E t \in AppTasks : SubscribeLock(t)
    \/ \E t \in AppTasks : SubPut(t)
    \/ \E t \in AppTasks : SubReg(t)
    \/ \E t \in AppTasks, h \in HandleIds : UnsubscribeCall(t, h)
    \/ \E t \in AppTasks : UnsubOnce(t)
    \/ \E t \in AppTasks : UuDelete(t)
    \/ \E t \in AppTasks : UuUnreg(t)
    \/ RequestSteps
    \/ CloseSteps
    \/ ReadSteps

SpecUser == InitUser /\ [][NextUser]_vars

\* SpecClose: a session of any family that the application, the read loop
\* (on a read error) and the pinger (on a failed probe) close.
InitClose ==
    /\ family \in Families
    /\ opsLimit = 0
    /\ outChCap = InboxCap
    /\ preSubs = InitialSubs
    /\ InitRest

NextClose ==
    \/ ConnectSteps
    \/ \E t \in AppTasks : CloseCall(t)
    \/ CloseSteps
    \/ RequestSteps
    \/ ReadSteps
    \/ PingSteps
    \/ SocketFail
    \/ ConnCtxSteps

SpecClose == InitClose /\ [][NextClose]_vars

\* SpecLive: a session whose tasks keep running.  One application task
\* subscribes to one stream and unsubscribes, the other closes the session
\* once, the pinger probes once, and the server answers or stays silent.
InitLive ==
    /\ family \in Families
    /\ opsLimit = MaxLiveOps
    /\ outChCap = InboxCap
    /\ preSubs = InitialSubs
    /\ InitRest

NextLive ==
    \/ ConnectSteps
    \/ SubscribeCall("a1", "s1")
    \/ \E h \in HandleIds : UnsubscribeCall("a1", h)
    \/ SubscriptionBodies
    \/ \E t \in Requesters : SawRegister(t)
    \/ \E t \in Requesters, o \in {"ok", "write"} : SawWrite(t, o)
    \/ \E t \in Requesters : CtxDone(t)
    \/ \E t \in Requesters : SawAwait(t)
    \/ \E t \in Requesters : SawDefer(t)
    \/ (hist.closes = 0 /\ CloseCall("a2"))
    \/ \E t \in Tasks : CloseOnce(t)
    \/ \E t \in Tasks : CloseDo(t, "nil")
    \/ ReadSteps
    \/ (hist.pings = 0 /\ PingTick)
    \/ PingLock
    \/ PingRet

\* The steps a task takes by itself once it is inside a call: a goroutine
\* that can run does run, a transport write returns, and sync.Mutex hands
\* the lock to a waiter.
TaskSteps(t) ==
    \/ LoginLock(t) \/ LoginRet(t)
    \/ SubscribeLock(t) \/ SubCommit(t) \/ SubPut(t) \/ SubReg(t)
    \/ UnsubOnce(t) \/ UnsubCommit(t) \/ UuDelete(t) \/ UuUnreg(t)
    \/ \E ok \in BOOLEAN : UnsubLock(t, ok)
    \/ \E byCtx \in BOOLEAN : FuSelect(t, byCtx)
    \/ SawRegister(t) \/ SawAwait(t) \/ SawDefer(t)
    \/ \E o \in {"ok", "write"} : SawWrite(t, o)
    \/ CloseOnce(t)
    \/ CloseDo(t, "nil")
    \/ (t = Pinger /\ (PingLock \/ PingRet))

\* Time passes, so a deadline that exists is reached; the write goroutine of
\* the futures-market Unsubscribe runs.  Nothing makes the server answer.
LiveFairness ==
    /\ \A t \in Requesters : WF_vars(TaskSteps(t))
    /\ \A t \in Requesters : WF_vars(CtxDone(t))
    /\ WF_vars(\E h \in HandleIds, ok \in BOOLEAN : FuWrite(h, ok))

SpecLive == InitLive /\ [][NextLive]_vars /\ LiveFairness

\* SpecRead: a session that only receives.  The server pushes frames, the
\* socket may fail, and the read loop keeps running.
InitRead ==
    /\ family \in Families
    /\ opsLimit = 0
    /\ outChCap = InboxCap
    /\ preSubs = InitialSubs
    /\ InitRest

NextRead ==
    \/ ConnectSteps
    \/ RequestSteps
    \/ CloseSteps
    \/ ReadSteps
    \/ \E k \in Keys, v \in Payloads : ServerPush(k, v)
    \/ SocketFail

\* The read loop's goroutine keeps running: it takes the next queued result
\* when there is one, and goes through its deferred Close.
ReaderSteps ==
    \/ ReaderSelect
    \/ ReaderRecv
    \/ \E s \in UserSubs : RouteDeliver(s)
    \/ CloseOnce(Reader)
    \/ \E e \in {"nil", "ErrWSClose"} : CloseDo(Reader, e)

\* Connect's login keeps running too, and its deadline is reached.
ReadFairness ==
    /\ WF_vars(ReaderSteps)
    /\ \A t \in AppTasks : WF_vars(TaskSteps(t))
    /\ \A t \in AppTasks : WF_vars(CtxDone(t))

SpecRead == InitRead /\ [][NextRead]_vars /\ ReadFairness

\* SpecShut: a session the application closes once while the workers run.
\* Closing the connection makes the transport's blocked read fail, and the
\* ticker keeps firing.
InitShut ==
    /\ family \in Families
    /\ opsLimit = 0
    /\ outChCap = InboxCap
    /\ preSubs = InitialSubs
    /\ InitRest

NextShut ==
    \/ ConnectSteps
    \/ (hist.closes = 0 /\ CloseCall("a1"))
    \/ CloseSteps
    \/ RequestSteps
    \/ ReadSteps
    \/ PingSteps
    \/ SocketFail

ShutFairness ==
    /\ WF_vars(ReaderSteps)
    /\ \A t \in Requesters : WF_vars(TaskSteps(t))
    /\ \A t \in Requesters : WF_vars(CtxDone(t))
    /\ WF_vars(clientClosed > 0 /\ PingTick)
    /\ WF_vars(clientClosed > 0 /\ SocketFail)

SpecShut == InitShut /\ [][NextShut]_vars /\ ShutFairness

\* SpecQueue: a session built with WithBufferedOutCh(n) for several n.  One
\* stream is subscribed to and the server pushes frames faster than the read
\* loop takes them.
InitQueue ==
    /\ family \in Families
    /\ opsLimit = 1
    /\ \E n \in 0..MaxQueue : outChCap = WithBufferedOutCh(n)
    /\ preSubs = 0
    /\ InitRest

NextQueue ==
    \/ ConnectSteps
    \/ SubscribeCall("a1", "s1")
    \/ SubscribeLock("a1")
    \/ SubCommit("a1")
    \/ SubPut("a1")
    \/ SubReg("a1")
    \/ RequestSteps
    \/ ReadSteps
    \/ RouteDeliver("s1")
    \/ \E v \in Payloads : ServerPush("k1", v)

SpecQueue == InitQueue /\ [][NextQueue]_vars

\* SpecRoute: a session that receives push frames while one application
\* task subscribes and unsubscribes.  No subscription is active at the start,
\* so that both streams can be registered at once.
InitRoute ==
    /\ family \in Families
    /\ opsLimit = MaxRouteOps
    /\ outChCap = InboxCap
    /\ preSubs = 0
    /\ InitRest

NextRoute ==
    \/ ConnectSteps
    \/ \E s \in Subs : SubscribeCall("a1", s)
    \/ \E h \in HandleIds : UnsubscribeCall("a1", h)
    \/ SubscriptionBodies
    \/ RequestSteps
    \/ CloseSteps
    \/ ReadSteps
    \/ \E s \in Subs : RouteDeliver(s)
    \/ \E k \in Keys, v \in Payloads : ServerPush(k, v)

SpecRoute == InitRoute /\ [][NextRoute]_vars

\* SpecCallback: a session whose data callbacks call back into the session.
\* One application task subscribes and unsubscribes, the server pushes
\* frames, and the callback of a registered stream calls Subscribe or
\* Handle.Unsubscribe while the read loop is inside Route.
InitCallback ==
    /\ family \in Families
    /\ opsLimit = MaxCallbackOps
    /\ outChCap = InboxCap
    /\ preSubs = 0
    /\ InitRest

NextCallback ==
    \/ ConnectSteps
    \/ \E s \in Subs : SubscribeCall("a1", s)
    \/ \E h \in HandleIds : UnsubscribeCall("a1", h)
    \/ \E s, s2 \in Subs : CallbackSubscribe(s, s2)
    \/ \E s \in Subs, h \in HandleIds : CallbackUnsubscribe(s, h)
    \/ CallbackRet
    \/ \E t \in {"a1", Callback} : SubscribeLock(t)
    \/ \E t \in {"a1", Callback} : SubCommit(t)
    \/ \E t \in {"a1", Callback} : SubPut(t)
    \/ \E t \in {"a1", Callback} : SubReg(t)
    \/ \E t \in {"a1", Callback} : UnsubOnce(t)
    \/ \E t \in {"a1", Callback} : UnsubLock(t, TRUE)
    \/ \E h \in HandleIds : FuWrite(h, TRUE)
    \/ \E t \in {"a1", Callback}, byCtx \in BOOLEAN : FuSelect(t, byCtx)
    \/ \E t \in {"a1", Callback} : UnsubCommit(t)
    \/ \E t \in {"a1", Callback} : UuDelete(t)
    \/ \E t \in {"a1", Callback} : UuUnreg(t)
    \/ \E t \in Requesters : SawRegister(t)
    \/ \E t \in Requesters : SawWrite(t, "ok")
    \/ \E t \in Requesters : CtxDone(t)
    \/ \E t \in Requesters : SawAwait(t)
    \/ \E t \in Requesters : SawDefer(t)
    \/ ReadSteps
    \/ \E s \in Subs : RouteDeliver(s)
    \/ \E k \in Keys : ServerPush(k, "valid")

\* The goroutines keep running, a deadline that exists is reached, and the
\* read loop goes on when the callback's call has returned.
CallbackFairness ==
    /\ \A t \in {"a1", Callback} : WF_vars(TaskSteps(t))
    /\ \A t \in {"a1", Callback} : WF_vars(CtxDone(t))
    /\ WF_vars(\E h \in HandleIds : FuWrite(h, TRUE))
    /\ WF_vars(ReaderSteps \/ CallbackRet)

SpecCallback == InitCallback /\ [][NextCallback]_vars /\ CallbackFairness

\* SpecPromise: one Promise on its own.
InitP ==
    /\ family = "spot"
    /\ preSubs = 0
    /\ opsLimit = 0
    /\ outChCap = InboxCap
    /\ InitSession
    /\ InitPromise

NextP ==
    \/ \E m \in Msgs : TPResolve(m)
    \/ \E e \in Errs : TPReject(e)
    \/ \E w \in Waiters, done \in BOOLEAN : TPAwaitCall(w, done)
    \/ \E w \in Waiters : TPCtxDone(w)
    \/ \E w \in Waiters : TPAwaitReturn(w)

SpecPromise == InitP /\ [][NextP]_vars

-----------------------------------------------------------------------------
(* Properties of the Promise (SpecPromise)                                  *)

\* The waiters whose Await returned what the Promise held (a value or a
\* FromServer error), and the outcome the first Resolve / Reject call carries.
Delivered ==
    {w \in Waiters : /\ tpAwait[w].st = "returned"
                     /\ ~(tpAwait[w].out.isErr /\ tpAwait[w].out.src = FromContext)}

FirstOutcome ==
    IF Head(tpLog).op = "resolve" THEN AwaitValue(Head(tpLog).arg)
    ELSE AwaitError(FromServer, Head(tpLog).arg)

Buffered ==
    {AwaitValue(tp.resCh[i]) : i \in 1..Len(tp.resCh)}
        \cup {AwaitError(FromServer, tp.errCh[i]) : i \in 1..Len(tp.errCh)}

\* C1: a Promise is settled at most once. Whatever Resolve and Reject calls
\* were made, only the first has an effect: the once flag is set exactly when
\* a call was made, the outcome of the first call is the only one ever held
\* by the Promise, it is buffered or was handed to one Await, and every other
\* call left nothing behind.
C1_SettledAtMostOnce ==
    /\ tp.once <=> (tpLog # <<>>)
    /\ Len(tp.resCh) + Len(tp.errCh) + Cardinality(Delivered) =
           (IF tpLog = <<>> THEN 0 ELSE 1)
    /\ tpLog # <<>> =>
           /\ Buffered \subseteq {FirstOutcome}
           /\ \A w \in Delivered : tpAwait[w].out = FirstOutcome

\* Resolve and then Reject were called, and an Await that returned after both
\* got the value of the Resolve.
C1_Witness ==
    /\ Len(tpLog) >= 2
    /\ tpLog[1].op = "resolve"
    /\ tpLog[2].op = "reject"
    /\ \E w \in Waiters :
          /\ tpAwait[w].st = "returned"
          /\ tpAwait[w].callsAtReturn >= 2
          /\ tpAwait[w].out = AwaitValue(tpLog[1].arg)

IsTimeout(out) == out.isErr /\ out.src = FromContext

\* C2 as stated: an Await entered with a context that is already done
\* returns the FromContext error and never a value, whatever the Promise
\* holds.
C2_ExpiredAlwaysTimeout ==
    \A w \in Waiters :
        (tpAwait[w].st = "returned" /\ tpAwait[w].ctxAtCall) => IsTimeout(tpAwait[w].out)

C2_AwaitResult(w) ==
    tpAwait[w].st = "returned" =>
        /\ (tpAwait[w].ctxAtCall /\ ~tpAwait[w].pendingAtReturn) => IsTimeout(tpAwait[w].out)
        /\ IsTimeout(tpAwait[w].out) => tpAwait[w].ctxDone
        /\ ~tpAwait[w].ctxDone => tpAwait[w].pendingAtReturn

\* C2, amended: an Await entered with a context that is already done returns
\* the FromContext error whenever the Promise holds no outcome when the
\* select runs (with an outcome already buffered the select may take either
\* case); a FromContext error is returned only for a done context; and what
\* an Await returned never changes afterwards, so a Resolve that comes after
\* the timeout is never reported to that caller.
C2_TimeoutUnlessPending ==
    [][/\ \A w \in Waiters : C2_AwaitResult(w)'
       /\ \A w \in Waiters : tpAwait[w].st = "returned" => tpAwait'[w] = tpAwait[w]]_vars

\* An Await entered with a done context timed out on an unsettled Promise,
\* and the Promise was resolved after that: the value sits in the buffer.
C2_Witness ==
    \E w \in Waiters :
        /\ tpAwait[w].st = "returned"
        /\ tpAwait[w].ctxAtCall
        /\ IsTimeout(tpAwait[w].out)
        /\ tpAwait[w].callsAtReturn = 0
        /\ tpLog # <<>>
        /\ tpLog[1].op = "resolve"
        /\ tp.resCh # <<>>

-----------------------------------------------------------------------------
(* Properties of sendAndAwaitResponse (Spec)                                *)

\* C3: sendAndAwaitResponse returns typed errors only. When it is about to
\* return (the deferred cleanup is next), its error is ErrWSWrite exactly when
\* serializing or writing the request failed (and then nothing was sent),
\* ErrWSMessageTimeout exactly when Await ended on the done context,
\* ErrWSServerError exactly when Await took the rejection the read loop put in
\* the promise, nil exactly when Await took the value the read loop resolved
\* it with; no kind stands for another and the unreachable panic never runs.
C3_TypedErrors ==
    \A t \in Requesters :
        pc[t] = "saw_defer" =>
            /\ call[t].err \in {"nil", "ErrWSWrite", "ErrWSMessageTimeout",
                                "ErrWSServerError"}
            /\ call[t].err = "ErrWSWrite" <=> call[t].cause \in {"serialize", "write"}
            /\ call[t].err = "ErrWSWrite" => ~call[t].sent
            /\ call[t].err = "ErrWSMessageTimeout" <=> call[t].cause = "ctx"
            /\ call[t].err = "ErrWSMessageTimeout" => call[t].ctxDone /\ call[t].sent
            /\ call[t].err = "ErrWSServerError" <=> call[t].cause = "server"
            /\ call[t].err = "ErrWSServerError" => call[t].settled = "rejected"
            /\ call[t].err = "nil" <=> call[t].cause = "none"
            /\ call[t].err = "nil" => call[t].settled = "resolved" /\ call[t].sent

\* A request that the server rejected is about to return ErrWSServerError
\* although its deadline has passed as well.
C3_Witness ==
    \E t \in Requesters :
        /\ pc[t] = "saw_defer"
        /\ call[t].err = "ErrWSServerError"
        /\ call[t].settled = "rejected"
        /\ call[t].ctxDone

-----------------------------------------------------------------------------
(* Properties of Subscribe and Unsubscribe (Spec, SpecUser)                 *)

\* Task t runs Subscribe's admission checks in this step.
SubscribeChecks(t) == pc[t] = "sub_lock" /\ pc'[t] # "sub_lock"

\* Task t's Subscribe was refused with error e in this step: nothing is
\* handed back, no request goes out and the registry is left as it was.
Refused(t, e) ==
    /\ pc'[t] = "idle"
    /\ ret'[t].op = "Subscribe"
    /\ ret'[t].err = e
    /\ ret'[t].h = 0
    /\ UNCHANGED <<wire, activeSubs, router, handles, promisesMap, promiseSlot,
                   prom, counter, activeSubsMu>>

\* C4: a Subscribe whose key is already active when it runs its checks
\* returns ErrDuplicateSubscription and no handle, sends no request and
\* leaves the existing registration untouched.
C4_DuplicateRefused ==
    [][\A t \in AppTasks :
          (SubscribeChecks(t) /\ activeSubs[SubID(call[t].sub)] # 0)
              => Refused(t, "ErrDuplicateSubscription")]_vars

\* A Subscribe for an active key returned ErrDuplicateSubscription, and the
\* key is still held by the handle of the earlier Subscribe, whose spec is
\* still registered.
C4_Witness ==
    \E t \in AppTasks :
        /\ ret[t].op = "Subscribe"
        /\ ret[t].err = "ErrDuplicateSubscription"
        /\ activeSubs[ret[t].key] # 0
        /\ handles[activeSubs[ret[t].key]].inner \in router
        /\ handles[activeSubs[ret[t].key]].once = "idle"

\* C5 as stated: a Subscribe that runs its checks while router.Len() is at
\* the limit returns ErrMaxCountSubscribes, whatever its key.
C5_LimitAlwaysRefused ==
    [][\A t \in AppTasks :
          (SubscribeChecks(t) /\ RouterLen >= maxCountSubscribes)
              => Refused(t, "ErrMaxCountSubscribes")]_vars

\* C5, amended: a Subscribe that runs its checks while router.Len() is at the
\* limit is refused without a handle, a request or a change of state: with
\* ErrMaxCountSubscribes when its key is not active, and with
\* ErrDuplicateSubscription when its key is active (that check comes first).
C5_LimitRefused ==
    [][\A t \in AppTasks :
          (SubscribeChecks(t) /\ RouterLen >= maxCountSubscribes)
              => Refused(t, IF activeSubs[SubID(call[t].sub)] # 0
                              THEN "ErrDuplicateSubscription"
                              ELSE "ErrMaxCountSubscribes")]_vars

\* A Subscribe for a key that is not active returned ErrMaxCountSubscribes
\* with the router at the limit.
C5_Witness ==
    \E t \in AppTasks :
        /\ ret[t].op = "Subscribe"
        /\ ret[t].err = "ErrMaxCountSubscribes"
        /\ ret[t].h = 0
        /\ activeSubs[ret[t].key] = 0
        /\ RouterLen = maxCountSubscribes

\* The specs registered in the Router under key k.
Registered(k) == {s \in router : SubID(s) = k}

\* C6: in every reachable state the active map and the Router each hold at
\* most maxCountSubscribes subscriptions, and no key is registered twice.
C6_WithinLimit ==
    /\ ActiveCount <= maxCountSubscribes
    /\ RouterLen <= maxCountSubscribes
    /\ \A k \in Keys : Cardinality(Registered(k)) <= 1

\* A Subscribe that ran while an Unsubscribe of the same spec was between
\* its two statements has returned a handle: the key is in the active map
\* and its spec is not registered, with no call in progress.
C6_Witness ==
    /\ \A t \in AppTasks : pc[t] = "idle"
    /\ \E k \in Keys :
          /\ activeSubs[k] # 0
          /\ handles[activeSubs[k]].once = "idle"
          /\ Registered(k) = {}

\* No application task is in the middle of updating the registry.
Observable == \A t \in AppTasks : pc[t] \notin {"sub_reg", "uu_unreg"}

\* C7: as long as every Subscribe used a key no earlier Subscribe used, at
\* every point where no call is in the middle of its update router.Len() is
\* the number of Subscribes that succeeded minus the number of Unsubscribes
\* that completed (one per handle: a repeated call on a handle does nothing;
\* on top of what was active at the start), and it is the size of the
\* active map.
C7_CountsAgree ==
    (hist.unique /\ Observable) =>
        /\ RouterLen = preSubs + hist.subOK - hist.unsubDone
        /\ RouterLen = ActiveCount

\* Two Subscribes with different keys succeeded, one Unsubscribe completed,
\* and no call is in progress.
C7_Witness ==
    /\ hist.unique
    /\ hist.subOK = 2
    /\ hist.unsubDone = 1
    /\ \A t \in AppTasks : pc[t] = "idle"
    /\ RouterLen = preSubs + 1

\* Both tasks returned from Subscribe calls for the same key that ran
\* concurrently.
ConcurrentPair ==
    /\ \A t \in AppTasks : pc[t] = "idle" /\ ret[t].op = "Subscribe" /\ ret[t].conc
    /\ ret["a1"].key = ret["a2"].key

Winners == {t \in AppTasks : ret[t].err = "nil"}

\* C8 as stated: of two concurrent Subscribes for one key at most one
\* succeeds, and exactly one spec for the key ends up registered.
C8_ExactlyOneRegistered ==
    ConcurrentPair =>
        /\ Cardinality(Winners) <= 1
        /\ Cardinality(Registered(ret["a1"].key)) = 1

\* C8, amended: of two concurrent Subscribes for one key at most one
\* succeeds; if one succeeds its handle holds the key, exactly its spec is
\* registered and the other returned an error; if neither succeeds (both may
\* fail, e.g. on a timeout) the registry is as it was before them, with the
\* key registered once if it was active already and not at all otherwise.
C8_AtMostOneSucceeds ==
    ConcurrentPair =>
        LET k == ret["a1"].key
        IN /\ Cardinality(Winners) <= 1
           /\ Cardinality(Registered(k)) <= 1
           /\ \A t \in Winners :
                 /\ activeSubs[k] = ret[t].h
                 /\ Registered(k) = {handles[ret[t].h].inner}
                 /\ \A u \in AppTasks \ {t} : ret[u].err # "nil" /\ ret[u].h = 0
           /\ Winners = {} => (Registered(k) = {} <=> activeSubs[k] = 0)

\* Two concurrent Subscribes for one key returned: one succeeded, the other
\* got ErrDuplicateSubscription.
C8_Witness ==
    /\ ConcurrentPair
    /\ \E t \in AppTasks :
          /\ ret[t].err = "nil"
          /\ \A u \in AppTasks \ {t} : ret[u].err = "ErrDuplicateSubscription"
    /\ Cardinality(Registered(ret["a1"].key)) = 1

\* C10: Handle.Unsubscribe is idempotent. For every handle the request is
\* written at most once, the deregistration runs at most once (exactly once
\* when a call has returned), and every call that returned got the outcome
\* the first call stored.
C10_UnsubscribeOnce ==
    \A h \in HandleIds :
        /\ handles[h].sent <= 1
        /\ handles[h].commits = (IF handles[h].once = "done" THEN 1 ELSE 0)
        /\ \A t \in AppTasks :
              (ret[t].op = "Unsubscribe" /\ ret[t].h = h) =>
                  /\ handles[h].once = "done"
                  /\ ret[t].err = (IF family = "futuser" THEN "nil" ELSE handles[h].err)

\* Both tasks returned from Unsubscribe on the same handle with the error of
\* the first call; one request was written and the spec is gone.
C10_Witness ==
    \E h \in HandleIds :
        /\ \A t \in AppTasks : ret[t].op = "Unsubscribe" /\ ret[t].h = h
                                /\ ret[t].err = "ErrWSMessageTimeout"
        /\ handles[h].sent = 1
        /\ handles[h].commits = 1
        /\ handles[h].inner \notin router

-----------------------------------------------------------------------------
(* Properties of Close (SpecClose)                                          *)

\* The tasks whose Close returned.
Closers == {t \in Tasks : ret[t].op = "Close"}

\* C9: however many times and from wherever Close is called, the transport's
\* Close runs at most once, exactly once when a Close has returned, and every
\* Close that returned got the same result, the one the first call stored.
C9_CloseOnce ==
    /\ clientClosed <= 1
    /\ clientClosed = (IF closeOnce = "done" THEN 1 ELSE 0)
    /\ \A t \in Closers : closeOnce = "done" /\ ret[t].err = closeErr

\* The application (twice), the read loop and the pinger all returned from
\* Close with the error of the one transport Close.
C9_Witness ==
    /\ Closers = Tasks \ {Callback}
    /\ clientClosed = 1
    /\ closeErr = "ErrWSClose"

-----------------------------------------------------------------------------
(* Properties of the failure paths (Spec)                                   *)

\* The body of handle h's once completes in this step.
UnsubscribeCompletes(h) == handles[h].once = "running" /\ handles'[h].once = "done"

\* C11: in the market sessions the first Unsubscribe call on a handle always
\* ends with the local deregistration, whatever became of its request: in
\* the step that completes the body the key leaves the active map and the
\* spec leaves the Router, the outcome (nil, ErrWSWrite, ErrWSMessageTimeout
\* or ErrWSServerError) is stored and handed to the caller, and the session
\* is not closed by it.
C11_AlwaysDeregisters ==
    [][\A h \in HandleIds :
          (family # "futuser" /\ UnsubscribeCompletes(h)) =>
              /\ activeSubs'[SubID(handles[h].inner)] = 0
              /\ handles[h].inner \notin router'
              /\ \E t \in AppTasks :
                    /\ call[t].op = "Unsubscribe" /\ call[t].h = h
                    /\ pc'[t] = "idle"
                    /\ ret'[t].op = "Unsubscribe"
                    /\ ret'[t].err = handles'[h].err
                    /\ ret'[t].err \in {"nil", "ErrWSWrite", "ErrWSMessageTimeout",
                                        "ErrWSServerError"}
              /\ UNCHANGED <<clientClosed, closeOnce, connState>>]_vars

\* An Unsubscribe whose request the server rejected returned
\* ErrWSServerError, and its key and spec are gone.
C11_Witness ==
    \E t \in AppTasks :
        /\ ret[t].op = "Unsubscribe"
        /\ ret[t].err = "ErrWSServerError"
        /\ handles[ret[t].h].once = "done"
        /\ activeSubs[ret[t].key] = 0
        /\ handles[ret[t].h].inner \notin router

\* Task t is inside a market session's Subscribe, past the admission checks
\* (it holds activeSubsMu).
Subscribing(t) ==
    /\ family # "futuser"
    /\ call[t].op = "Subscribe"
    /\ pc[t] \in {"saw_reg", "saw_write", "saw_await", "saw_defer", "sub_commit"}

\* Task t's Subscribe returns in this step.
SubscribeReturns(t) == Subscribing(t) /\ pc'[t] = "idle"

\* A failed Subscribe changes nothing: while a Subscribe is past its checks
\* no step touches the active map or the Router or creates a handle, except
\* its own return with success, which records the handle and registers the
\* spec; a return with an error hands back no handle.
C12_FailureLeavesRegistry ==
    [][\A t \in AppTasks :
          Subscribing(t) =>
              IF SubscribeReturns(t) /\ ret'[t].err = "nil"
                THEN /\ ret'[t].h = Len(handles) + 1
                     /\ activeSubs' = [activeSubs EXCEPT ![SubID(call[t].sub)] = ret'[t].h]
                     /\ router' = router \cup {call[t].sub}
                     /\ call[t].settled = "resolved"
                ELSE /\ UNCHANGED <<activeSubs, router>>
                     /\ Len(handles') = Len(handles)
                     /\ SubscribeReturns(t) =>
                            /\ ret'[t].h = 0
                            /\ ret'[t].err \in {"ErrWSWrite", "ErrWSMessageTimeout",
                                                "ErrWSServerError"}]_vars

\* C12: in the market sessions Subscribe registers the spec and records the
\* handle only after its own subscribe request was acknowledged (the frame
\* that resolved its promise answers a request for its key), and a failed
\* Subscribe returns the error and no handle and leaves the active map and
\* the Router as they were.
C12_RegisteredAfterOwnAck ==
    [][\A t \in AppTasks :
          (SubscribeReturns(t) /\ ret'[t].err = "nil") =>
              /\ call[t].sent
              /\ call[t].settled = "resolved"
              /\ call[t].ackKey = SubID(call[t].sub)]_vars

\* A Subscribe returned with a handle, its spec registered, and the frame
\* that resolved its promise was the acknowledgment of a request for another
\* key, while its own request is still unanswered.
C12_Witness ==
    \E t \in AppTasks :
        /\ family = "futmarket"
        /\ ret[t].op = "Subscribe"
        /\ ret[t].err = "nil"
        /\ activeSubs[ret[t].key] = ret[t].h
        /\ handles[ret[t].h].inner \in router
        /\ Request("sub", ret[t].key, 0) \in wire

-----------------------------------------------------------------------------
(* Termination of the calls (SpecLive)                                      *)

\* Task t is inside Subscribe, Handle.Unsubscribe or a heartbeat probe.
InCall(t) ==
    /\ call[t].op \in {"Subscribe", "Unsubscribe", "ping"}
    /\ pc[t] \in {"sub_lock", "sub_put", "sub_reg", "sub_commit", "unsub_once",
                   "unsub_lock", "fu_select", "unsub_commit", "uu_delete",
                   "uu_unreg", "ping_lock", "saw_reg", "saw_write", "saw_await",
                   "saw_defer", "ping_ret"}

-----------------------------------------------------------------------------
(* Properties of the pinger and the read loop (SpecClose)                   *)

\* The pinger has left its loop: it is closing the session or has ended.
PingerStopped == pc[Pinger] \in {"close_once", "close_do", "done"}

\* The ping requests on the wire.
PingsSent == {rq \in wire : rq.op = "ping"}

\* C14: a failed probe, whatever the error, makes the pinger close the
\* session and stop.  The step after a failed sendPing goes to Close without
\* the latency callback; once the pinger has left its loop it never probes
\* again (no tick is taken, no ping request is written, no latency is
\* reported); and when it has ended after a failed probe the transport is
\* closed and the latency callback ran once per successful probe only.
C14_FailedProbeStops ==
    [][/\ (pc[Pinger] = "ping_ret" /\ pc'[Pinger] # "ping_ret"
                                     /\ call[Pinger].err # "nil") =>
              /\ pc'[Pinger] = "close_once"
              /\ hist' = hist
       /\ PingerStopped =>
              /\ PingerStopped'
              /\ hist'.pings = hist.pings
              /\ hist'.latency = hist.latency
              /\ PingsSent' \subseteq PingsSent
       /\ (pc'[Pinger] = "done" /\ ret'[Pinger].op = "Close") =>
              /\ closeOnce' = "done"
              /\ clientClosed' = 1
              /\ hist'.latency = hist'.pings - 1]_vars

\* The first probe succeeded and the second failed: the pinger has closed
\* the session and ended, with one latency report.
C14_Witness ==
    /\ pc[Pinger] = "done"
    /\ ret[Pinger].op = "Close"
    /\ hist.pings = 2
    /\ hist.latency = 1
    /\ clientClosed = 1

\* C15: whenever the socket read fails, the read loop eventually observes
\* the failure: the disconnect callback has run exactly once, the session is
\* closed and the read loop has ended, whatever the inbound queue held when
\* the read failed.
C15_ReadFailureObserved ==
    (sockReader = "stopped") ~>
        (hist.disconnects = 1 /\ closeOnce = "done" /\ pc[Reader] = "done")

\* The socket read failed while the inbound queue was full: the error was
\* dropped, the read loop has handled what was queued and waits in
\* ReadMessage on a queue nothing will ever be put in, with the disconnect
\* callback not invoked and the session not closed.
C15_Witness ==
    /\ sockReader = "stopped"
    /\ inbox = <<>>
    /\ pc[Reader] = "recv"
    /\ hist.disconnects = 0
    /\ closeOnce = "idle"

\* The transport's connect has failed and Connect returned ErrWSConnection.
ConnectRefused ==
    /\ connState = "failed"
    /\ \E t \in AppTasks : ret[t].op = "Connect" /\ ret[t].err = "ErrWSConnection"

\* C16: Connect starts the workers only after the transport connected.  The
\* read loop and the pinger leave their initial state only in the step in
\* which client.Connect succeeds, and both do so in that step, so each is
\* started exactly once by that call; when client.Connect fails the call
\* returns ErrWSConnection, and before a Connect and after a failed one no
\* worker and no transport reader runs.
C16_WorkersAfterConnect ==
    [][/\ (connState = "created" /\ connState' = "connected") =>
              /\ pc[Reader] = "off" /\ pc'[Reader] = "read"
              /\ pc[Pinger] = "off" /\ pc'[Pinger] = "wait"
              /\ sockReader = "off" /\ sockReader' = "on"
       /\ (connState = "created" /\ connState' = "failed") => ConnectRefused'
       /\ (pc[Reader] = "off" /\ pc'[Reader] # "off") => connState = "created"
       /\ (pc[Pinger] = "off" /\ pc'[Pinger] # "off") => connState = "created"
       /\ (connState' = "created" \/ ConnectRefused') =>
              /\ pc'[Reader] = "off"
              /\ pc'[Pinger] = "off"
              /\ sockReader' = "off"
              /\ clientClosed' = 0]_vars

\* Connect failed in the transport and returned ErrWSConnection: no worker
\* was started.
C16_Witness ==
    /\ ConnectRefused
    /\ pc[Reader] = "off"
    /\ pc[Pinger] = "off"

-----------------------------------------------------------------------------
(* Properties of the Router (SpecRoute)                                     *)

\* The frame router.Route is working on, and the deliveries made of it.
Routing == call[Reader].frame

GotFrame(s, f, log) == \E g \in log : g.s = s /\ g.id = f.id

\* Spec s is handed the frame in this step (its handleEvent runs).
Handed(s) ==
    /\ pc[Reader] = "route"
    /\ s \in call[Reader].todo
    /\ hist'.routed = hist.routed + 1
    /\ (pc'[Reader] = "route" => s \notin call'[Reader].todo)

\* C17: Route excludes Register and Unregister.  While a Route call runs the
\* set of registered specs does not change; a spec is handed a frame only if
\* it is registered, its acceptEvent is true, it was not handed that frame
\* before, and it has a handle whose Unsubscribe has not completed; and when
\* the Route call ends every registered spec whose acceptEvent is true has
\* been handed the frame.
C17_RouteExcludesUpdates ==
    [][/\ pc[Reader] = "route" => router' = router
       /\ \A s \in UserSubs :
             Handed(s) =>
                 /\ s \in router
                 /\ AcceptEvent(s, Routing)
                 /\ ~GotFrame(s, Routing, hist.got)
                 /\ GotFrame(s, Routing, hist'.got)
                 /\ \E h \in HandleIds : handles[h].inner = s /\ handles[h].once # "done"
       /\ (pc[Reader] = "route" /\ pc'[Reader] # "route") =>
             \A s \in router : AcceptEvent(s, Routing) => GotFrame(s, Routing, hist'.got)
       /\ ~hist'.dup]_vars

\* A Route call is handing a frame to a spec whose Unsubscribe, called
\* meanwhile, is waiting at Unregister for the Route call to end.
C17_Witness ==
    /\ pc[Reader] = "route"
    /\ \E t \in AppTasks :
          /\ call[t].op = "Unsubscribe"
          /\ pc[t] \in {"unsub_commit", "fu_select", "uu_unreg"}
          /\ call[t].sub \in call[Reader].todo

\* C18: a push frame whose payload fails to decode in the handler of spec s
\* reaches only the invalid-payload callback of s: no data callback and no
\* callback of another spec runs for it, the read loop goes on (it neither
\* closes the session nor ends), the registrations and the frames still
\* queued are left as they were, so later frames are routed as usual.
C18_DecodeFailureContained ==
    [][\A s \in UserSubs :
          (Handed(s) /\ Routing.op = "malformed") =>
              /\ hist'.got = hist.got \cup {[s |-> s, id |-> Routing.id, cb |-> "invalid"]}
              /\ pc'[Reader] \in {"route", "read"}
              /\ router' = router
              /\ activeSubs' = activeSubs
              /\ inbox' = inbox
              /\ closeOnce' = closeOnce
              /\ sockReader' = sockReader]_vars

\* A malformed frame went to the invalid-payload callback of one spec and a
\* later frame was delivered to the data callback of another spec.
C18_Witness ==
    \E g, d \in hist.got :
        /\ g.cb = "invalid"
        /\ d.cb = "data"
        /\ d.id > g.id
        /\ d.s # g.s

-----------------------------------------------------------------------------
(* Properties of the user session's shared state (SpecUser)                 *)

\* Task t removes a key from the active map in this step.
MapDelete(t) == pc[t] = "uu_delete" /\ pc'[t] = "uu_unreg"

\* C19: the accesses to the user session's active map exclude one another
\* (a task deletes from the map only while no other task is inside the
\* section guarded by activeSubsMu), and whenever every call has returned a
\* key is in the active map exactly when a spec of that key is registered
\* in the Router.
C19_MapAccessesExclusive ==
    [][/\ \A t \in AppTasks : MapDelete(t) => activeSubsMu \in {"free", t}
       /\ (\A t \in AppTasks : pc'[t] = "idle") =>
              \A k \in Keys : (activeSubs'[k] # 0) <=> (Registered(k)' # {})]_vars

\* An Unsubscribe has deleted its key from the active map while a Subscribe
\* of another task, holding activeSubsMu, is between its duplicate check and
\* its registration.
C19_Witness ==
    \E t, u \in AppTasks :
        /\ t # u
        /\ pc[t] = "uu_unreg"
        /\ activeSubsMu = u
        /\ call[u].op = "Subscribe"
        /\ pc[u] \in {"sub_put", "sub_reg"}

-----------------------------------------------------------------------------
(* Properties of the disconnect callback (SpecClose)                        *)

\* The read loop invokes onDisconnect in this step.
OnDisconnectCalled == hist'.disconnects = hist.disconnects + 1

\* The frame the read loop takes up is the read failure that the closing of
\* the transport by the application's Close() produced.
ClosedByApplication ==
    /\ inbox # <<>>
    /\ Head(inbox).kind = "readerr"
    /\ Head(inbox).op = "closed"
    /\ hist.closer = "application"

\* C20: the disconnect callback is invoked only for disconnections the
\* application did not ask for: the read loop never invokes it for the read
\* failure that follows the application's own Close() of a connected
\* session.
C20_DisconnectUnexpectedOnly ==
    [][OnDisconnectCalled => ~ClosedByApplication]_vars

\* The application's Close() has returned on a connected session, no probe
\* was sent, and the read loop has invoked the disconnect callback with the
\* read failure of the closed transport.
C20_Witness ==
    /\ hist.closer = "application"
    /\ hist.pings = 0
    /\ hist.disconnects = 1
    /\ hist.cause = "closed"
    /\ \E t \in AppTasks : ret[t].op = "Close" /\ pc[t] = "idle"

-----------------------------------------------------------------------------
(* Properties of the shutdown (SpecShut)                                    *)

\* C21: after the application's Close() of a connected session the read
\* loop and the pinger both eventually end.
C21_WorkersStop ==
    (hist.closer = "application") ~> (pc[Reader] = "done" /\ pc[Pinger] = "done")

\* The application closed the session while a frame was queued: the read
\* error of the closed connection was dropped, the pinger has ended, and
\* the read loop waits in ReadMessage on a queue nothing will be put in.
C21_Witness ==
    /\ hist.closer = "application"
    /\ sockReader = "stopped"
    /\ pc[Pinger] = "done"
    /\ pc[Reader] = "recv"
    /\ inbox = <<>>

-----------------------------------------------------------------------------
(* Properties of the dispatch of a frame (SpecRoute)                        *)

\* The read loop takes a frame (not a read error) from the queue in this step.
TakesFrame ==
    /\ pc[Reader] = "recv"
    /\ inbox # <<>>
    /\ Head(inbox).kind # "readerr"
    /\ inbox' = Tail(inbox)

\* C22: in the futures sessions a frame the read loop takes is offered to
\* the pending promise first.  A frame the predicate accepts settles that
\* promise (Resolve when the predicate's error is nil, Reject otherwise) and
\* Route is not called; for any other frame, and for any frame taken while
\* no promise is pending, Route is called once and no promise changes.
\* Route is called in no other step.
C22_PromiseBeforeRouter ==
    [][family # "spot" =>
          /\ TakesFrame =>
                LET f == Head(inbox)
                    o == promiseSlot
                IN IF o # "none" /\ Match(call[o], f).ok
                     THEN /\ hist'.routeCalls = hist.routeCalls
                          /\ pc'[Reader] = "read"
                          /\ prom'[o] = IF Match(call[o], f).err
                                          THEN Reject(prom[o], f.kind)
                                          ELSE Resolve(prom[o], f.kind)
                     ELSE /\ hist'.routeCalls = hist.routeCalls + 1
                          /\ prom' = prom
          /\ ~TakesFrame => hist'.routeCalls = hist.routeCalls]_vars

\* Futures market: a push frame is being routed while the promise of a
\* Subscribe is pending, and a frame has been claimed by a promise before.
C22_Witness ==
    /\ family = "futmarket"
    /\ promiseSlot # "none"
    /\ pc[promiseSlot] = "saw_await"
    /\ pc[Reader] = "route"
    /\ hist.subOK > 0

\* The pending request a frame is offered to: spot looks the frame's id up
\* in promisesMap, the futures sessions have the one slot.
OfferedTo(f) ==
    IF family = "spot"
      THEN IF f.kind = "push" THEN "none" ELSE promisesMap[f.id]
      ELSE promiseSlot

\* C23: a frame offered to a pending promise whose predicate does not accept
\* it leaves that promise as it was, neither resolved nor rejected.
C23_UnacceptedKeepsPending ==
    [][TakesFrame =>
          LET f == Head(inbox)
              o == OfferedTo(f)
          IN (o # "none" /\ ~Match(call[o], f).ok) => prom'[o] = prom[o]]_vars

\* Spot: the heartbeat's promise (id 0) was rejected by a frame with id 0 its
\* predicate did not accept, and the probe failed with a server error
\* before its deadline.
C23_Witness ==
    /\ family = "spot"
    /\ pc[Pinger] = "saw_await"
    /\ call[Pinger].reqId = reservedPongID
    /\ call[Pinger].settled = "rejected"
    /\ ~call[Pinger].ctxDone

\* The request task o has written and the server has not answered yet.
OwnRequest(o) == Request(ReqOp(call[o]), ReqKey(call[o]), call[o].reqId)

\* C24: in the futures market session a frame settles the pending promise
\* only if it answers that promise's own request: when the read loop
\* settles a promise, the server has answered the request of that promise
\* (it is no longer on the wire).
C24_ReplySettlesOwnRequest ==
    [][(family = "futmarket" /\ TakesFrame) =>
          \A o \in Requesters :
              prom'[o] # prom[o] => OwnRequest(o) \notin wire]_vars

\* Futures market: the promise of a Subscribe was resolved by the
\* acknowledgment of an earlier request for another symbol of the channel,
\* and the Subscribe, still in Await, has its own request unanswered.
C24_Witness ==
    \E t \in AppTasks :
        /\ family = "futmarket"
        /\ call[t].op = "Subscribe"
        /\ pc[t] = "saw_await"
        /\ call[t].settled = "resolved"
        /\ call[t].ackKey # ReqKey(call[t])
        /\ OwnRequest(t) \in wire

-----------------------------------------------------------------------------
(* Properties of the pending map and slot (Spec)                            *)

\* Task t is inside sendAndAwaitResponse, its promise registered.
InFlight(t) == pc[t] \in {"saw_write", "saw_await", "saw_defer"}

\* The pending map or slot holds the promise of task t.
Pending(t) ==
    \/ promiseSlot = t
    \/ \E i \in DOMAIN promisesMap : promisesMap[i] = t

\* Frame f answers the request of a call that is still in flight.
AnswersInFlight(f) ==
    \E t \in Requesters :
        /\ InFlight(t)
        /\ ReqOp(call[t]) = f.op
        /\ ReqKey(call[t]) = f.key
        /\ family = "spot" => call[t].reqId = f.id

\* C25: a promise is in the pending map or slot only while its request is
\* in flight (so the map and the slot are empty when no request is), it is
\* registered when the request is written, and an acknowledgment whose
\* request is no longer in flight settles no promise.
C25_PromiseLifetime ==
    [][/\ \A t \in Requesters : Pending(t)' => InFlight(t)'
       /\ \A t \in Requesters : (call'[t].sent /\ ~call[t].sent) => Pending(t)
       /\ (TakesFrame /\ Head(inbox).kind = "ack" /\ ~AnswersInFlight(Head(inbox)))
              => prom' = prom]_vars

\* Futures market: the acknowledgment of a Subscribe that timed out is
\* queued while the Subscribe of another symbol is awaiting its own.
C25_Witness ==
    /\ family = "futmarket"
    /\ inbox # <<>>
    /\ Head(inbox).kind = "ack"
    /\ ~AnswersInFlight(Head(inbox))
    /\ \E t \in AppTasks : ret[t].err = "ErrWSMessageTimeout"
    /\ \E t \in AppTasks : pc[t] = "saw_await" /\ Pending(t)

-----------------------------------------------------------------------------
(* Properties of the inbound queue (SpecQueue)                              *)

\* The push frames in a queue are in the order the server sent them.
InOrder(q) ==
    \A i, j \in 1..Len(q) :
        (i < j /\ q[i].kind = "push" /\ q[j].kind = "push") => q[i].id < q[j].id

\* C26: frames are handled in arrival order.  The queue is first-in
\* first-out (a frame is added at its end, the read loop takes its head),
\* its push frames are in the order the server sent them, and a push frame
\* handed to a subscription was sent after every frame that subscription
\* was handed before and before every push frame still queued.
C26_ArrivalOrder ==
    [][/\ InOrder(inbox')
       /\ inbox' # inbox =>
              \/ inbox # <<>> /\ inbox' = Tail(inbox)
              \/ Len(inbox') = Len(inbox) + 1 /\ SubSeq(inbox', 1, Len(inbox)) = inbox
       /\ TakesFrame => pc'[Reader] \in {"read", "route"}
       /\ \A s \in UserSubs :
             Handed(s) =>
                 /\ \A g \in hist.got : g.s = s => g.id < Routing.id
                 /\ \A i \in 1..Len(inbox) :
                        inbox[i].kind = "push" => inbox[i].id > Routing.id]_vars

\* Two push frames of a stream were queued together and its subscription
\* has been handed both.
C26_Witness ==
    /\ outChCap > 1
    /\ \E g, d \in hist.got : g.s = "s1" /\ d.s = "s1" /\ g.id = 1 /\ d.id = 2
    /\ hist.routeCalls = 2

\* A frame read from the socket is offered to the queue in this step.
FrameArrives ==
    \/ hist'.pushes = hist.pushes + 1
    \/ wire' # wire /\ wire' \subseteq wire

\* C27: the queue never holds more than its capacity, and a frame arriving
\* at a full queue is dropped: the queued frames stay as they are and the
\* socket reader goes on; with room the frame is added at the end.
C27_QueueBounded ==
    [][/\ Len(inbox') <= outChCap
       /\ outChCap' = outChCap
       /\ FrameArrives =>
              /\ sockReader' = "on"
              /\ IF Len(inbox) < outChCap
                    THEN /\ Len(inbox') = Len(inbox) + 1
                         /\ SubSeq(inbox', 1, Len(inbox)) = inbox
                    ELSE inbox' = inbox]_vars

\* Spot: the queue is full and a push frame the server sent is neither in
\* it nor handled: it was dropped, and the socket reader is still reading.
C27_Witness ==
    /\ family = "spot"
    /\ Len(inbox) = outChCap
    /\ pc[Reader] # "route"
    /\ hist.pushes > hist.routeCalls + Len(inbox)
    /\ sockReader = "on"

-----------------------------------------------------------------------------
(* Properties of the locks (SpecLive)                                       *)

\* Task t is blocked in a transport write or in Promise.Await.
Blocked(t) == pc[t] \in {"saw_write", "saw_await", "fu_select"}

InSaw(t) == pc[t] \in {"saw_reg", "saw_write", "saw_await", "saw_defer"}

\* C29: in the futures sessions a task inside sendAndAwaitResponse holds
\* activeSubsMu, so at most one request is in flight; the slot is empty when
\* a promise is put in it, and the deferred clearing finds the promise of
\* the request that is returning.
C29_OneRequestInFlight ==
    [][family # "spot" =>
          /\ \A t \in Requesters : InSaw(t)' => activeSubsMu' = t
          /\ Cardinality({t \in Requesters : InSaw(t)'}) <= 1
          /\ \A t \in Requesters :
                (pc[t] = "saw_reg" /\ pc'[t] # "saw_reg") =>
                    (promiseSlot = "none" /\ promiseSlot' = t)
          /\ \A t \in Requesters :
                (pc[t] = "saw_defer" /\ pc'[t] # "saw_defer") =>
                    (promiseSlot = t /\ promiseSlot' = "none")
          /\ \A t \in Requesters :
                (pc[t] \in {"saw_write", "saw_await"}) => promiseSlot = t]_vars

\* Futures market: the heartbeat probe is awaiting its reply, holding the
\* lock, while a Subscribe waits for the lock.
C29_Witness ==
    /\ family = "futmarket"
    /\ pc[Pinger] = "saw_await"
    /\ promiseSlot = Pinger
    /\ activeSubsMu = Pinger
    /\ pc["a1"] = "sub_lock"

\* C30: a call to Subscribe or Handle.Unsubscribe made from inside a data
\* callback does not deadlock: the call returns and the read loop goes on.
C30_CallbackCallReturns ==
    (pc[Reader] = "callback") ~> (pc[Reader] \in {"route", "read"})

\* The callback's Unsubscribe waits for the Router's write lock while its own
\* goroutine holds the read lock.
C30_Witness ==
    /\ pc[Reader] = "callback"
    /\ call[Callback].op = "Unsubscribe"
    /\ pc[Callback] \in {"unsub_commit", "fu_select", "uu_unreg"}
    /\ ~RouterWritable

=============================================================================
